---- MODULE Spec2Model ----
(***************************************************************************)
(* Model of the api_crawler traversal engine (src/src/crawler.rs) and of   *)
(* the data types it works on (src/src/types.rs).                          *)
(*                                                                         *)
(* Strings are atomic values; where the code looks inside a string         *)
(* (starts_with, contains, ends_with, Url::parse) the model spells the     *)
(* string out (Chars) or tabulates the library's answer (UrlParse) for     *)
(* the finite universe of strings that occur in the modelled API.          *)
(***************************************************************************)
EXTENDS Integers, Sequences, FiniteSets, TLC

(***************************************************************************)
(* Bounds of the model.                                                    *)
(***************************************************************************)
\* crawl() calls made on one ApiCrawler instance
MaxCrawls == 2
\* items popped from url_queue within one crawl() call
MaxPops == 8

(***************************************************************************)
(* General helpers.                                                        *)
(***************************************************************************)
\* Option::None for the optional string fields
None == "<None>"

EmptyMap == [k \in {} |-> None]

\* HashMap::insert
MapInsert(m, k, v) == [x \in (DOMAIN m) \cup {k} |-> IF x = k THEN v ELSE m[x]]

Max(a, b) == IF a >= b THEN a ELSE b

RECURSIVE Flatten(_)
Flatten(ss) == IF ss = <<>> THEN <<>> ELSE Head(ss) \o Flatten(Tail(ss))

RECURSIVE IsPrefixAt(_, _, _)
IsPrefixAt(p, s, i) ==
    IF p = <<>> THEN TRUE
    ELSE /\ i <= Len(s)
         /\ s[i] = Head(p)
         /\ IsPrefixAt(Tail(p), s, i + 1)

\* str::starts_with, str::contains, str::ends_with on spelled-out strings
StartsWith(s, p) == IsPrefixAt(p, s, 1)
Contains(s, p) == \E i \in 1..(Len(s) + 1) : IsPrefixAt(p, s, i)
EndsWith(s, p) == Len(p) <= Len(s) /\ IsPrefixAt(p, s, Len(s) - Len(p) + 1)

(***************************************************************************)
(* The universe of strings: URLs of the modelled API and JSON keys.        *)
(***************************************************************************)
SeedA == "http://a.com"
UrlRoot == "http://a.com/"
UrlX == "http://a.com/x"
UrlY == "http://b.org/y"
UrlIp == "http://127.0.0.1/z"
UrlRel == "/rel"
BadSeed == "a.com"
\* a second URL whose last path segment is that of UrlX
UrlBX == "http://b.org/x"

\* the URLs of create_clean_test_structure
CleanStart == "http://qx-022160:8080/api/v1"
CleanGeneration == "http://qx-022160:8080/api/v1/generation"
CleanAudio == "http://qx-022160:8080/api/v1/audio"
CleanAnalyser == "http://qx-022160:8080/api/v1/analyser"
CleanTextToSpeech == "http://qx-022160:8080/api/v1/generation/text-to-speech"
CleanSpeechEnhancement == "http://qx-022160:8080/api/v1/generation/speech-enhancement"
CleanUpload == "http://qx-022160:8080/api/v1/audio/upload"
CleanProcess == "http://qx-022160:8080/api/v1/audio/process"
CleanSentiment == "http://qx-022160:8080/api/v1/analyser/sentiment"
CleanEmotion == "http://qx-022160:8080/api/v1/analyser/emotion"

\* the start_url arguments crawl() is called with
Seeds == {SeedA, UrlY, BadSeed}

\* Content-Type header values; "" stands for a missing or unreadable header
CtJsonUtf8 == "application/json; charset=utf-8"
CtHal == "application/hal+json"
CtHtml == "text/html"
ContentTypes == {CtJsonUtf8, CtHal, CtHtml, ""}

RECURSIVE Chars(_)
Chars(s) ==
    CASE s = SeedA -> <<"h","t","t","p",":","/","/","a",".","c","o","m">>
      [] s = UrlRoot -> <<"h","t","t","p",":","/","/","a",".","c","o","m","/">>
      [] s = UrlX -> <<"h","t","t","p",":","/","/","a",".","c","o","m","/","x">>
      [] s = UrlY -> <<"h","t","t","p",":","/","/","b",".","o","r","g","/","y">>
      [] s = UrlIp -> <<"h","t","t","p",":","/","/","1","2","7",".","0",".","0",".","1","/","z">>
      [] s = UrlRel -> <<"/","r","e","l">>
      [] s = BadSeed -> <<"a",".","c","o","m">>
      [] s = UrlBX -> <<"h","t","t","p",":","/","/","b",".","o","r","g","/","x">>
      [] s = CleanStart -> <<"h","t","t","p",":","/","/","q","x","-","0","2","2","1","6","0",":","8","0","8","0","/","a","p","i","/","v","1">>
      [] s = CleanGeneration ->
            Chars(CleanStart) \o <<"/","g","e","n","e","r","a","t","i","o","n">>
      [] s = CleanAudio ->
            Chars(CleanStart) \o <<"/","a","u","d","i","o">>
      [] s = CleanAnalyser ->
            Chars(CleanStart) \o <<"/","a","n","a","l","y","s","e","r">>
      [] s = CleanTextToSpeech ->
            Chars(CleanStart) \o <<"/","g","e","n","e","r","a","t","i","o","n","/","t","e","x","t","-","t","o","-","s","p","e","e","c","h">>
      [] s = CleanSpeechEnhancement ->
            Chars(CleanStart) \o <<"/","g","e","n","e","r","a","t","i","o","n","/","s","p","e","e","c","h","-","e","n","h","a","n","c","e","m","e","n","t">>
      [] s = CleanUpload ->
            Chars(CleanStart) \o <<"/","a","u","d","i","o","/","u","p","l","o","a","d">>
      [] s = CleanProcess ->
            Chars(CleanStart) \o <<"/","a","u","d","i","o","/","p","r","o","c","e","s","s">>
      [] s = CleanSentiment ->
            Chars(CleanStart) \o <<"/","a","n","a","l","y","s","e","r","/","s","e","n","t","i","m","e","n","t">>
      [] s = CleanEmotion ->
            Chars(CleanStart) \o <<"/","a","n","a","l","y","s","e","r","/","e","m","o","t","i","o","n">>
      [] s = "_links" -> <<"_","l","i","n","k","s">>
      [] s = "links" -> <<"l","i","n","k","s">>
      [] s = "href" -> <<"h","r","e","f">>
      [] s = "rel" -> <<"r","e","l">>
      [] s = "method" -> <<"m","e","t","h","o","d">>
      [] s = "type" -> <<"t","y","p","e">>
      [] s = "title" -> <<"t","i","t","l","e">>
      [] s = "self" -> <<"s","e","l","f">>
      [] s = "next" -> <<"n","e","x","t">>
      [] s = "items" -> <<"i","t","e","m","s">>
      [] s = "count" -> <<"c","o","u","n","t">>
      [] s = "site_url" -> <<"s","i","t","e","_","u","r","l">>
      [] s = "doc_link" -> <<"d","o","c","_","l","i","n","k">>
      [] s = "application/json" ->
            <<"a","p","p","l","i","c","a","t","i","o","n","/","j","s","o","n">>
      [] s = "application/hal+json" ->
            <<"a","p","p","l","i","c","a","t","i","o","n","/","h","a","l","+",
              "j","s","o","n">>
      [] s = CtJsonUtf8 ->
            <<"a","p","p","l","i","c","a","t","i","o","n","/","j","s","o","n",
              ";"," ","c","h","a","r","s","e","t","=","u","t","f","-","8">>
      [] s = CtHtml -> <<"t","e","x","t","/","h","t","m","l">>
      [] OTHER -> <<>>

(***************************************************************************)
(* url::Url::parse, tabulated: whether the string parses as an absolute    *)
(* URL, its serialisation (Url::to_string) and its domain (Url::domain,    *)
(* None for an IP-address host).                                           *)
(***************************************************************************)
UrlParse(u) ==
    CASE u = SeedA -> [ok |-> TRUE, str |-> UrlRoot, domain |-> "a.com"]
      [] u = UrlRoot -> [ok |-> TRUE, str |-> UrlRoot, domain |-> "a.com"]
      [] u = UrlX -> [ok |-> TRUE, str |-> UrlX, domain |-> "a.com"]
      [] u = UrlY -> [ok |-> TRUE, str |-> UrlY, domain |-> "b.org"]
      [] u = UrlIp -> [ok |-> TRUE, str |-> UrlIp, domain |-> None]
      [] OTHER -> [ok |-> FALSE, str |-> None, domain |-> None]

(***************************************************************************)
(* serde_json::Value, as the pair <<variant, payload>>: value[1] names the  *)
(* variant and value[2] is what it holds.  An object holds the sequence of *)
(* its (key, value) members in iteration order (serde_json's Map iterates  *)
(* in key order), an array the sequence of its elements.                   *)
(***************************************************************************)
JStr(s) == <<"str", s>>
JNum(n) == <<"num", n>>
JObj(members) == <<"obj", members>>
JArr(elems) == <<"arr", elems>>
JMissing == <<"missing", None>>

\* Map::get: the member's value, JMissing when the key is absent
Get(obj, key) ==
    IF \E i \in 1..Len(obj[2]) : obj[2][i][1] = key
    THEN obj[2][CHOOSE i \in 1..Len(obj[2]) : obj[2][i][1] = key][2]
    ELSE JMissing

\* obj.get(key) as Option<String>: Some only for a string member
GetStr(obj, key) == IF Get(obj, key)[1] = "str" THEN Get(obj, key)[2] ELSE None

(***************************************************************************)
(* src/src/types.rs: ApiEndpoint, QueueItem, CrawlStats, CrawlResult.      *)
(***************************************************************************)
ApiEndpoint_new(href, depth) ==
    [href |-> href, rel |-> None, method |-> None, type |-> None,
     title |-> None, depth |-> depth, parent_url |-> None,
     metadata |-> EmptyMap]

with_rel(e, rel) == [e EXCEPT !.rel = rel]
with_parent(e, parent_url) == [e EXCEPT !.parent_url = parent_url]
with_metadata(e, key, value) == [e EXCEPT !.metadata = MapInsert(@, key, value)]

should_crawl_IgnoreCase(e) == e.rel \notin {"self", "Self", "SELF"}

should_crawl(e) == e.rel # "self"

QueueItem_new(url, depth, parent_url) ==
    [url |-> url, depth |-> depth, parent_url |-> parent_url]

CrawlStats_default ==
    [urls_processed |-> 0, successful_requests |-> 0, failed_requests |-> 0,
     urls_skipped |-> 0, max_depth_reached |-> 0, errors |-> <<>>]

CrawlResult_new(start_url) ==
    [start_url |-> start_url, endpoints |-> <<>>, url_mappings |-> EmptyMap,
     stats |-> CrawlStats_default, completed |-> FALSE]

add_endpoint_Overwrite(res, e) ==
    [res EXCEPT
       !.endpoints = Append(@, e),
       !.url_mappings =
           IF e.parent_url # None THEN MapInsert(@, e.parent_url, <<e>>) ELSE @]

add_endpoint(res, e) ==
    [res EXCEPT
       !.endpoints = Append(@, e),
       !.url_mappings =
           IF e.parent_url # None
           THEN MapInsert(@, e.parent_url,
                          IF e.parent_url \in DOMAIN @
                          THEN Append(@[e.parent_url], e) ELSE <<e>>)
           ELSE @]

complete(res) == [res EXCEPT !.completed = TRUE]

(***************************************************************************)
(* src/src/crawler.rs: the link extractor.                                 *)
(***************************************************************************)
looks_like_url(s) ==
    \/ StartsWith(Chars(s), <<"h","t","t","p",":","/","/">>)
    \/ StartsWith(Chars(s), <<"h","t","t","p","s",":","/","/">>)
    \/ StartsWith(Chars(s), <<"/">>)

KnownFields == {"href", "rel", "method", "type", "title"}

RECURSIVE CollectMetadata_KeepsRel(_, _)
CollectMetadata_KeepsRel(e, members) ==
    IF members = <<>> THEN e
    ELSE CollectMetadata_KeepsRel(
           IF Head(members)[1] \notin KnownFields \ {"rel"}
           THEN with_metadata(e, Head(members)[1], Head(members)[2]) ELSE e,
           Tail(members))

\* the metadata loop: every member that is not a known field
RECURSIVE CollectMetadata(_, _)
CollectMetadata(e, members) ==
    IF members = <<>> THEN e
    ELSE CollectMetadata(
           IF Head(members)[1] \notin KnownFields
           THEN with_metadata(e, Head(members)[1], Head(members)[2]) ELSE e,
           Tail(members))

\* method / type / title promoted to fields, the rest to metadata
FillFromObject(e, obj) ==
    CollectMetadata(
        [e EXCEPT !.method = IF GetStr(obj, "method") # None
                             THEN GetStr(obj, "method") ELSE @,
                  !.type = IF GetStr(obj, "type") # None
                           THEN GetStr(obj, "type") ELSE @,
                  !.title = IF GetStr(obj, "title") # None
                            THEN GetStr(obj, "title") ELSE @],
        obj[2])

RECURSIVE extract_from_link_data(_, _, _)
extract_from_link_data(rel, link_data, parent_item) ==
    CASE link_data[1] = "str" ->
           << with_parent(with_rel(ApiEndpoint_new(link_data[2], parent_item.depth + 1),
                                   rel), parent_item.url) >>
      [] link_data[1] = "obj" ->
           IF GetStr(link_data, "href") # None
           THEN << FillFromObject(
                     with_parent(with_rel(ApiEndpoint_new(GetStr(link_data, "href"),
                                                          parent_item.depth + 1),
                                          rel), parent_item.url),
                     link_data) >>
           ELSE <<>>
      [] link_data[1] = "arr" ->
           Flatten([i \in 1..Len(link_data[2]) |->
                      extract_from_link_data(rel, link_data[2][i], parent_item)])
      [] OTHER -> <<>>

HalLinks_FirstOnly(obj, parent_item) ==
    IF Get(obj, "_links")[1] = "obj" /\ Get(obj, "_links")[2] # <<>>
    THEN extract_from_link_data(Get(obj, "_links")[2][1][1],
                                Get(obj, "_links")[2][1][2], parent_item)
    ELSE <<>>

\* HAL: an object-valued _links member, one link entry per relation
HalLinks(obj, parent_item) ==
    IF Get(obj, "_links")[1] = "obj"
    THEN Flatten([i \in 1..Len(Get(obj, "_links")[2]) |->
                    extract_from_link_data(Get(obj, "_links")[2][i][1],
                                           Get(obj, "_links")[2][i][2], parent_item)])
    ELSE <<>>

\* JSON:API: a links member, an object per relation or an array of link objects
JsonApiLinks(obj, parent_item) ==
    CASE Get(obj, "links")[1] = "obj" ->
           Flatten([i \in 1..Len(Get(obj, "links")[2]) |->
                      extract_from_link_data(Get(obj, "links")[2][i][1],
                                             Get(obj, "links")[2][i][2], parent_item)])
      [] Get(obj, "links")[1] = "arr" ->
           Flatten([i \in 1..Len(Get(obj, "links")[2]) |->
                      IF Get(obj, "links")[2][i][1] = "obj"
                      THEN extract_from_link_data(
                             IF GetStr(Get(obj, "links")[2][i], "rel") # None
                             THEN GetStr(Get(obj, "links")[2][i], "rel") ELSE "unknown",
                             Get(obj, "links")[2][i], parent_item)
                      ELSE <<>>])
      [] OTHER -> <<>>

DirectHref_NoParent(obj, parent_item) ==
    IF GetStr(obj, "href") # None
    THEN << FillFromObject(
              with_rel(ApiEndpoint_new(GetStr(obj, "href"), parent_item.depth + 1),
                       GetStr(obj, "rel")),
              obj) >>
    ELSE <<>>

\* an object with a string href member of its own
DirectHref(obj, parent_item) ==
    IF GetStr(obj, "href") # None
    THEN << FillFromObject(
              with_parent(with_rel(ApiEndpoint_new(GetStr(obj, "href"),
                                                   parent_item.depth + 1),
                                   GetStr(obj, "rel")), parent_item.url),
              obj) >>
    ELSE <<>>

\* members whose key looks like a URL field and whose value looks like a URL
UrlFields(obj, parent_item) ==
    Flatten([i \in 1..Len(obj[2]) |->
               IF /\ \/ Contains(Chars(obj[2][i][1]), <<"u","r","l">>)
                     \/ Contains(Chars(obj[2][i][1]), <<"u","r","i">>)
                     \/ EndsWith(Chars(obj[2][i][1]), <<"_","l","i","n","k">>)
                  /\ obj[2][i][2][1] = "str"
                  /\ looks_like_url(obj[2][i][2][2])
               THEN << with_metadata(
                         with_parent(ApiEndpoint_new(obj[2][i][2][2], parent_item.depth + 1),
                                     parent_item.url),
                         "source_field", JStr(obj[2][i][1])) >>
               ELSE <<>>])

RECURSIVE extract_from_object(_, _)
extract_from_object(obj, parent_item) ==
    HalLinks(obj, parent_item)
    \o JsonApiLinks(obj, parent_item)
    \o DirectHref(obj, parent_item)
    \o UrlFields(obj, parent_item)
    \o Flatten([i \in 1..Len(obj[2]) |->
          CASE obj[2][i][2][1] = "obj" -> extract_from_object(obj[2][i][2], parent_item)
            [] obj[2][i][2][1] = "arr" ->
                 Flatten([j \in 1..Len(obj[2][i][2][2]) |->
                            IF obj[2][i][2][2][j][1] = "obj"
                            THEN extract_from_object(obj[2][i][2][2][j], parent_item)
                            ELSE <<>>])
            [] OTHER -> <<>>])

extract_endpoints_from_json(json, parent_item) ==
    CASE json[1] = "obj" -> extract_from_object(json, parent_item)
      [] json[1] = "arr" ->
           Flatten([i \in 1..Len(json[2]) |->
                      IF json[2][i][1] = "obj"
                      THEN extract_from_object(json[2][i], parent_item)
                      ELSE <<>>])
      [] OTHER -> <<>>

(***************************************************************************)
(* The modelled API: the JSON documents a GET may return.                  *)
(***************************************************************************)
\* {"_links": {"next": {"href": X}, "self": {"href": ROOT}}}
DocHal ==
    JObj(<< <<"_links", JObj(<< <<"next", JObj(<< <<"href", JStr(UrlX)>> >>)>>,
                                <<"self", JObj(<< <<"href", JStr(UrlRoot)>> >>)>> >>)>> >>)

\* {"links": [{"href": Y, "rel": "next"}], "site_url": "/rel"}
DocLinks ==
    JObj(<< <<"links", JArr(<< JObj(<< <<"href", JStr(UrlY)>>,
                                       <<"rel", JStr("next")>> >>) >>)>>,
            <<"site_url", JStr(UrlRel)>> >>)

\* {"count": 1, "doc_link": IP, "href": X, "rel": "self", "title": "t"}
DocSelf ==
    JObj(<< <<"count", JNum(1)>>, <<"doc_link", JStr(UrlIp)>>,
            <<"href", JStr(UrlX)>>, <<"rel", JStr("self")>>,
            <<"title", JStr("t")>> >>)

Docs == {DocHal, DocLinks, DocSelf}

(***************************************************************************)
(* State of one ApiCrawler instance and of the crawl() call running on it. *)
(***************************************************************************)
VARIABLES
    config,        \* CrawlerConfig, immutable after ApiCrawler::new
    semaphore,     \* permits available in the Semaphore
    visited_urls,  \* HashSet<String>
    url_queue,     \* VecDeque<QueueItem>
    result,        \* the CrawlResult local to the running crawl()
    item,          \* the QueueItem popped by the current loop iteration
    pc,            \* "idle" | "loop" | "acquire" | "fetch"
    returned,      \* what the last crawl() returned: "none" | "Ok" | "Err"
    crawls,        \* history: crawl() calls made on this instance
    popped,        \* history: items popped by the running crawl()
    fetched,       \* history: items whose GET the running crawl() has sent
    response,      \* history: content type and decoded body of the last GET
    last,          \* history: what the last step did to the popped item
    arg,           \* the argument a function of the library is called with
    out            \* what that call returned

vars == <<config, semaphore, visited_urls, url_queue, result, item, pc,
          returned, crawls, popped, fetched, response, last, arg, out>>

NoItem == QueueItem_new(None, 0, None)

NoResponse == [content_type |-> None, body |-> JMissing]

Configs ==
    [max_depth : {0, 1, 2}, max_urls : {0, 1, 2}, max_concurrent_requests : {0, 1, 2},
     allowed_domains : {{}, {"a.com"}}]

\* ApiCrawler::new
Init ==
    /\ config \in Configs
    /\ semaphore = config.max_concurrent_requests
    /\ visited_urls = {}
    /\ url_queue = <<>>
    /\ result = CrawlResult_new(None)
    /\ item = NoItem
    /\ pc = "idle"
    /\ returned = "none"
    /\ crawls = 0
    /\ popped = 0
    /\ fetched = <<>>
    /\ response = NoResponse
    /\ last = "new"
    /\ arg = None
    /\ out = None

normalize_url_Lenient(url) ==
    IF UrlParse(url).ok THEN UrlParse(url)
    ELSE [ok |-> TRUE, str |-> url, domain |-> None]

normalize_url(url) == UrlParse(url)

is_domain_allowed_AnyHost(url) ==
    IF config.allowed_domains = {} THEN "true"
    ELSE IF ~UrlParse(url).ok THEN "err"
    ELSE "true"

\* Ok(true) / Ok(false) / Err(UrlParse) as "true" / "false" / "err"
is_domain_allowed(url) ==
    IF config.allowed_domains = {} THEN "true"
    ELSE IF ~UrlParse(url).ok THEN "err"
    ELSE IF UrlParse(url).domain # None
         THEN (IF UrlParse(url).domain \in config.allowed_domains
               THEN "true" ELSE "false")
    ELSE "false"

(***************************************************************************)
(* crawl(): entry.                                                         *)
(***************************************************************************)
\* normalize_url(start_url)? fails: crawl returns Err before touching the queue
CrawlBadSeed(start_url) ==
    /\ pc = "idle"
    /\ crawls < MaxCrawls
    /\ ~normalize_url(start_url).ok
    /\ result' = CrawlResult_new(start_url)
    /\ returned' = "Err"
    /\ crawls' = crawls + 1
    /\ popped' = 0
    /\ fetched' = <<>>
    /\ last' = "bad_seed"
    /\ UNCHANGED <<arg, out, config, semaphore, visited_urls, url_queue, item, pc, response>>

\* the seed is pushed at the back of url_queue and the loop starts
CrawlStart(start_url) ==
    /\ pc = "idle"
    /\ crawls < MaxCrawls
    /\ normalize_url(start_url).ok
    /\ result' = CrawlResult_new(start_url)
    /\ url_queue' = Append(url_queue,
                           QueueItem_new(normalize_url(start_url).str, 0, None))
    /\ pc' = "loop"
    /\ returned' = "none"
    /\ crawls' = crawls + 1
    /\ popped' = 0
    /\ fetched' = <<>>
    /\ last' = "start"
    /\ UNCHANGED <<arg, out, config, semaphore, visited_urls, item, response>>

(***************************************************************************)
(* crawl(): one iteration of `while let Some(item) = pop_front()` up to    *)
(* its first await.  The checks run in the order of the code; each action  *)
(* below is one way the iteration can go.                                  *)
(***************************************************************************)
CanPop == pc = "loop" /\ url_queue # <<>> /\ popped < MaxPops

DepthExceeded_OffByOne(it) ==
    config.max_depth > 0 /\ it.depth > config.max_depth

DepthExceeded(it) == config.max_depth > 0 /\ it.depth >= config.max_depth

UrlLimitReached_OffByOne ==
    config.max_urls > 0 /\ result.stats.urls_processed > config.max_urls

UrlLimitReached ==
    config.max_urls > 0 /\ result.stats.urls_processed >= config.max_urls

Pop ==
    /\ item' = Head(url_queue)
    /\ url_queue' = Tail(url_queue)
    /\ popped' = popped + 1

Skip == result' = [result EXCEPT !.stats.urls_skipped = @ + 1]

\* the queue is empty: the loop ends, result.complete(), Ok(result)
LoopExit ==
    /\ pc = "loop"
    /\ url_queue = <<>>
    /\ result' = complete(result)
    /\ pc' = "idle"
    /\ returned' = "Ok"
    /\ last' = "exit"
    /\ UNCHANGED <<arg, out, config, semaphore, visited_urls, url_queue, item, crawls,
                   popped, fetched, response>>

SkipDepth ==
    /\ CanPop
    /\ DepthExceeded(Head(url_queue))
    /\ Pop
    /\ Skip
    /\ last' = "skip_depth"
    /\ UNCHANGED <<arg, out, config, semaphore, visited_urls, pc, returned, crawls, fetched, response>>

\* break: the popped item is dropped, result.complete(), Ok(result)
StopMaxUrls ==
    /\ CanPop
    /\ ~DepthExceeded(Head(url_queue))
    /\ UrlLimitReached
    /\ Pop
    /\ result' = complete(result)
    /\ pc' = "idle"
    /\ returned' = "Ok"
    /\ last' = "break"
    /\ UNCHANGED <<arg, out, config, semaphore, visited_urls, crawls, fetched, response>>

SkipVisited ==
    /\ CanPop
    /\ ~DepthExceeded(Head(url_queue))
    /\ ~UrlLimitReached
    /\ Head(url_queue).url \in visited_urls
    /\ Pop
    /\ Skip
    /\ last' = "skip_visited"
    /\ UNCHANGED <<arg, out, config, semaphore, visited_urls, pc, returned, crawls, fetched, response>>

\* is_domain_allowed(&item.url)? fails: crawl returns Err, the result is dropped
DomainError ==
    /\ CanPop
    /\ ~DepthExceeded(Head(url_queue))
    /\ ~UrlLimitReached
    /\ Head(url_queue).url \notin visited_urls
    /\ is_domain_allowed(Head(url_queue).url) = "err"
    /\ Pop
    /\ pc' = "idle"
    /\ returned' = "Err"
    /\ last' = "domain_err"
    /\ UNCHANGED <<arg, out, config, semaphore, visited_urls, result, crawls, fetched, response>>

SkipDomain_MarksVisited ==
    /\ CanPop
    /\ ~DepthExceeded(Head(url_queue))
    /\ ~UrlLimitReached
    /\ Head(url_queue).url \notin visited_urls
    /\ is_domain_allowed(Head(url_queue).url) = "false"
    /\ Pop
    /\ Skip
    /\ visited_urls' = visited_urls \cup {Head(url_queue).url}
    /\ last' = "skip_domain"
    /\ UNCHANGED <<arg, out, config, semaphore, pc, returned, crawls, fetched, response>>

SkipDomain ==
    /\ CanPop
    /\ ~DepthExceeded(Head(url_queue))
    /\ ~UrlLimitReached
    /\ Head(url_queue).url \notin visited_urls
    /\ is_domain_allowed(Head(url_queue).url) = "false"
    /\ Pop
    /\ Skip
    /\ last' = "skip_domain"
    /\ UNCHANGED <<arg, out, config, semaphore, visited_urls, pc, returned, crawls, fetched, response>>

MarkVisited_Forgotten(visited, url) == visited

MarkVisited_OnlyLast(visited, url) == {url}

\* self.visited_urls.insert(item.url.clone())
MarkVisited(visited, url) == visited \cup {url}

\* every check passed: mark visited and call process_url
Dispatch ==
    /\ CanPop
    /\ ~DepthExceeded(Head(url_queue))
    /\ ~UrlLimitReached
    /\ Head(url_queue).url \notin visited_urls
    /\ is_domain_allowed(Head(url_queue).url) = "true"
    /\ Pop
    /\ visited_urls' = MarkVisited(visited_urls, Head(url_queue).url)
    /\ pc' = "acquire"
    /\ last' = "dispatch"
    /\ UNCHANGED <<arg, out, config, semaphore, result, returned, crawls, fetched, response>>

(***************************************************************************)
(* process_url(): acquire a permit, GET, check the content type, decode,   *)
(* extract.  The permit is dropped when process_url returns, on every      *)
(* path.  The match arms of crawl() and the inter-request delay follow     *)
(* in the same step: nothing else can run on the crawler (&mut self).      *)
(***************************************************************************)
Acquire_NoWait ==
    /\ pc = "acquire"
    /\ semaphore' = semaphore - 1
    /\ fetched' = Append(fetched, item)
    /\ pc' = "fetch"
    /\ last' = "acquire"
    /\ UNCHANGED <<arg, out, config, visited_urls, url_queue, result, item, returned,
                   crawls, popped, response>>

Acquire ==
    /\ pc = "acquire"
    /\ semaphore > 0
    /\ semaphore' = semaphore - 1
    /\ fetched' = Append(fetched, item)
    /\ pc' = "fetch"
    /\ last' = "acquire"
    /\ UNCHANGED <<arg, out, config, visited_urls, url_queue, result, item, returned,
                   crawls, popped, response>>

\* result.add_endpoint(endpoint.clone()) for every extracted endpoint
RECURSIVE RecordAll(_, _)
RecordAll(res, endpoints) ==
    IF endpoints = <<>> THEN res
    ELSE RecordAll(add_endpoint(res, Head(endpoints)), Tail(endpoints))

RECURSIVE NewItems_NoVisitedCheck(_, _, _)
NewItems_NoVisitedCheck(endpoints, it, visited) ==
    IF endpoints = <<>> THEN <<>>
    ELSE (IF should_crawl(Head(endpoints))
          THEN << QueueItem_new(Head(endpoints).href, it.depth + 1, it.url) >>
          ELSE <<>>)
         \o NewItems_NoVisitedCheck(Tail(endpoints), it, visited)

\* the queue items pushed for the extracted endpoints
RECURSIVE NewItems(_, _, _)
NewItems(endpoints, it, visited) ==
    IF endpoints = <<>> THEN <<>>
    ELSE (IF should_crawl(Head(endpoints)) /\ Head(endpoints).href \notin visited
          THEN << QueueItem_new(Head(endpoints).href, it.depth + 1, it.url) >>
          ELSE <<>>)
         \o NewItems(Tail(endpoints), it, visited)

OnOk_DepthOfChildren(endpoints) ==
    /\ result' = RecordAll(
                   [result EXCEPT !.stats.successful_requests = @ + 1,
                                  !.stats.urls_processed = @ + 1,
                                  !.stats.max_depth_reached = Max(@, item.depth + 1)],
                   endpoints)
    /\ url_queue' = url_queue \o NewItems(endpoints, item, visited_urls)

OnOk_PushFront(endpoints) ==
    /\ result' = RecordAll(
                   [result EXCEPT !.stats.successful_requests = @ + 1,
                                  !.stats.urls_processed = @ + 1,
                                  !.stats.max_depth_reached = Max(@, item.depth)],
                   endpoints)
    /\ url_queue' = NewItems(endpoints, item, visited_urls) \o url_queue

\* the Ok(endpoints) arm
OnOk(endpoints) ==
    /\ result' = RecordAll(
                   [result EXCEPT !.stats.successful_requests = @ + 1,
                                  !.stats.urls_processed = @ + 1,
                                  !.stats.max_depth_reached = Max(@, item.depth)],
                   endpoints)
    /\ url_queue' = url_queue \o NewItems(endpoints, item, visited_urls)

OnErr_NoMessage(e) ==
    /\ result' = [result EXCEPT !.stats.failed_requests = @ + 1]
    /\ UNCHANGED url_queue

OnErr_CountsProcessed(e) ==
    /\ result' = [result EXCEPT
                    !.stats.failed_requests = @ + 1,
                    !.stats.urls_processed = @ + 1,
                    !.stats.errors = Append(@, [url |-> item.url, error |-> e])]
    /\ UNCHANGED url_queue

\* the Err(e) arm
OnErr(e) ==
    /\ result' = [result EXCEPT
                    !.stats.failed_requests = @ + 1,
                    !.stats.errors = Append(@, [url |-> item.url, error |-> e])]
    /\ UNCHANGED url_queue

\* process_url's test of the Content-Type header
IsJsonContentType(content_type) ==
    \/ Contains(Chars(content_type), Chars("application/json"))
    \/ Contains(Chars(content_type), Chars("application/hal+json"))

\* client.get(url).send() fails: connection error, timeout, redirect limit,
\* or a url the client cannot build a request for
ProcessTransportErr ==
    /\ pc = "fetch"
    /\ OnErr("Http")
    /\ semaphore' = semaphore + 1
    /\ pc' = "loop"
    /\ last' = "transport_err"
    /\ response' = NoResponse
    /\ UNCHANGED <<arg, out, config, visited_urls, item, returned, crawls, popped, fetched>>

ProcessNonJson_AsError(content_type) ==
    /\ pc = "fetch"
    /\ UrlParse(item.url).ok
    /\ ~IsJsonContentType(content_type)
    /\ OnErr("InvalidResponse")
    /\ semaphore' = semaphore + 1
    /\ pc' = "loop"
    /\ last' = "non_json"
    /\ response' = [content_type |-> content_type, body |-> JMissing]
    /\ UNCHANGED <<arg, out, config, visited_urls, item, returned, crawls, popped, fetched>>

\* the content type is neither application/json nor application/hal+json
ProcessNonJson(content_type) ==
    /\ pc = "fetch"
    /\ UrlParse(item.url).ok
    /\ ~IsJsonContentType(content_type)
    /\ OnOk(<<>>)
    /\ semaphore' = semaphore + 1
    /\ pc' = "loop"
    /\ last' = "non_json"
    /\ response' = [content_type |-> content_type, body |-> JMissing]
    /\ UNCHANGED <<arg, out, config, visited_urls, item, returned, crawls, popped, fetched>>

ProcessDecodeErr_KeepsPermit(content_type) ==
    /\ pc = "fetch"
    /\ UrlParse(item.url).ok
    /\ IsJsonContentType(content_type)
    /\ OnErr("Json")
    /\ pc' = "loop"
    /\ last' = "decode_err"
    /\ response' = [content_type |-> content_type, body |-> JMissing]
    /\ UNCHANGED <<arg, out, config, semaphore, visited_urls, item, returned, crawls,
                   popped, fetched>>

\* response.json() fails
ProcessDecodeErr(content_type) ==
    /\ pc = "fetch"
    /\ UrlParse(item.url).ok
    /\ IsJsonContentType(content_type)
    /\ OnErr("Json")
    /\ semaphore' = semaphore + 1
    /\ pc' = "loop"
    /\ last' = "decode_err"
    /\ response' = [content_type |-> content_type, body |-> JMissing]
    /\ UNCHANGED <<arg, out, config, visited_urls, item, returned, crawls, popped, fetched>>

ProcessJson(content_type, json) ==
    /\ pc = "fetch"
    /\ UrlParse(item.url).ok
    /\ IsJsonContentType(content_type)
    /\ OnOk(extract_endpoints_from_json(json, item))
    /\ semaphore' = semaphore + 1
    /\ pc' = "loop"
    /\ last' = "json"
    /\ response' = [content_type |-> content_type, body |-> json]
    /\ UNCHANGED <<arg, out, config, visited_urls, item, returned, crawls, popped, fetched>>

Next ==
    \/ \E s \in Seeds : CrawlBadSeed(s)
    \/ \E s \in Seeds : CrawlStart(s)
    \/ LoopExit
    \/ SkipDepth
    \/ StopMaxUrls
    \/ SkipVisited
    \/ DomainError
    \/ SkipDomain
    \/ Dispatch
    \/ Acquire
    \/ ProcessTransportErr
    \/ \E content_type \in ContentTypes : ProcessNonJson(content_type)
    \/ \E content_type \in ContentTypes : ProcessDecodeErr(content_type)
    \/ \E content_type \in ContentTypes, json \in Docs : ProcessJson(content_type, json)

Spec == Init /\ [][Next]_vars

(***************************************************************************)
(* The steps of a running crawl() call.  The runtime polls the future to   *)
(* completion: a loop iteration that can run does run, an acquire on a     *)
(* semaphore with a free permit returns, and the client's timeout makes    *)
(* every GET return.  Whether crawl() is called again is up to the caller. *)
(***************************************************************************)
CrawlStep ==
    \/ LoopExit
    \/ SkipDepth
    \/ StopMaxUrls
    \/ SkipVisited
    \/ DomainError
    \/ SkipDomain
    \/ Dispatch
    \/ Acquire
    \/ ProcessTransportErr
    \/ \E content_type \in ContentTypes : ProcessNonJson(content_type)
    \/ \E content_type \in ContentTypes : ProcessDecodeErr(content_type)
    \/ \E content_type \in ContentTypes, json \in Docs : ProcessJson(content_type, json)

FairSpec == Spec /\ WF_vars(CrawlStep)

(***************************************************************************)
(* The library called directly, without a crawl: an ApiCrawler that was    *)
(* built with the default configuration and never asked to crawl.          *)
(***************************************************************************)
CrawlerConfig_default ==
    [max_depth |-> 10, max_urls |-> 1000, max_concurrent_requests |-> 10,
     allowed_domains |-> {}]

NeverCrawled ==
    /\ config = CrawlerConfig_default
    /\ semaphore = config.max_concurrent_requests
    /\ visited_urls = {}
    /\ url_queue = <<>>
    /\ pc = "idle"
    /\ returned = "none"
    /\ crawls = 0
    /\ popped = 0
    /\ fetched = <<>>
    /\ response = NoResponse
    /\ last = "new"

crawlVars == <<config, semaphore, visited_urls, url_queue, pc, returned,
               crawls, popped, fetched, response>>

(***************************************************************************)
(* CrawlResult::add_endpoint called on a fresh CrawlResult with endpoints  *)
(* built by ApiEndpoint::new, with_rel and with_parent.                    *)
(***************************************************************************)
MaxEndpoints == 4
\* records of a result handed to the tree serializer
MaxRecords == 3
\* deduplicated records up to which every iteration order of the HashMap is
\* tried; a larger map is tried in every rotation of its insertion order and
\* of the reverse of that order
MaxPermuted == 3

SomeEndpoints ==
    {with_parent(with_rel(ApiEndpoint_new(href, 1), rel), parent_url) :
       href \in {UrlX, UrlY}, rel \in {None, "self"},
       parent_url \in {None, UrlRoot, UrlX}}

AggregatorInit ==
    /\ NeverCrawled
    /\ result = CrawlResult_new(UrlRoot)
    /\ item = NoItem
    /\ arg = None
    /\ out = None

AddEndpoint(endpoint) ==
    /\ Len(result.endpoints) < MaxEndpoints
    /\ result' = add_endpoint(result, endpoint)
    /\ arg' = endpoint
    /\ last' = "add_endpoint"
    /\ UNCHANGED <<crawlVars, item, out>>

AggregatorNext == \E endpoint \in SomeEndpoints : AddEndpoint(endpoint)

AggregatorSpec == AggregatorInit /\ [][AggregatorNext]_vars

(***************************************************************************)
(* ApiEndpoint::should_crawl called on endpoints built by ApiEndpoint::new *)
(* and with_rel, as in test_endpoint_should_crawl.                         *)
(***************************************************************************)
Rels == {None, "self", "next", "Self", "SELF", "self ", "selfie", "", "unknown"}

RelEndpoints ==
    {with_parent(with_rel(ApiEndpoint_new(href, depth), rel), parent_url) :
       href \in {UrlRoot, UrlX}, depth \in {0, 1}, rel \in Rels,
       parent_url \in {None, UrlRoot}}

ShouldCrawlInit ==
    /\ NeverCrawled
    /\ result = CrawlResult_new(None)
    /\ item = NoItem
    /\ arg \in RelEndpoints
    /\ out = None

ShouldCrawl ==
    /\ out' = should_crawl(arg)
    /\ last' = "should_crawl"
    /\ UNCHANGED <<crawlVars, result, item, arg>>

ShouldCrawlNext == ShouldCrawl

ShouldCrawlSpec == ShouldCrawlInit /\ [][ShouldCrawlNext]_vars

(***************************************************************************)
(* The extractor called directly, as the tests of crawler.rs call it:      *)
(* extract_endpoints_from_json on a document and extract_from_link_data on *)
(* one link entry under a relation name.                                   *)
(***************************************************************************)
\* the member (key, value) of an object under construction, none when the
\* value is JMissing
Member(key, value) == IF value = JMissing THEN <<>> ELSE << <<key, value>> >>

\* link objects as in test_no_metadata_duplication: known fields present or
\* absent, as strings or not, next to members that are not known fields
LinkObjects ==
    {JObj(Member("count", count) \o Member("href", href) \o Member("method", method)
          \o Member("rel", rel) \o Member("site_url", site_url)
          \o Member("title", title) \o Member("type", type)) :
       count \in {JMissing, JNum(1)},
       href \in {JMissing, JStr(UrlX), JNum(7)},
       method \in {JMissing, JStr("POST")},
       rel \in {JMissing, JStr("self"), JStr("next")},
       site_url \in {JMissing, JStr(UrlRel)},
       title \in {JMissing, JStr("t"), JNum(7)},
       type \in {JMissing, JStr(CtHal)}}

\* what may stand under a relation name in a link container
LinkEntries ==
    {JStr(UrlY),
     JObj(<< <<"href", JStr(UrlX)>> >>),
     JObj(<< <<"href", JStr(UrlX)>>, <<"rel", JStr("self")>> >>),
     JObj(<< <<"count", JNum(1)>> >>),
     JNum(3),
     JArr(<< JObj(<< <<"href", JStr(UrlX)>> >>), JStr(UrlY) >>),
     JArr(<< JArr(<< JStr(UrlIp) >>) >>)}

\* HAL documents as in test_extract_endpoints_from_hal_json: an object
\* whose _links member holds up to three relations
HalDocs ==
    {JObj(<< <<"_links", JObj(Member("items", items) \o Member("next", next)
                              \o Member("self", self))>> >>) :
       items \in LinkEntries \cup {JMissing},
       next \in LinkEntries \cup {JMissing},
       self \in LinkEntries \cup {JMissing}}

\* documents whose link objects sit at different places: in an array under
\* a member, under a member of an array element, in an array nested directly
\* inside another array (under a member, and at the top level)
NestedDocs ==
    {JObj(<< <<"items", JArr(<< JObj(<< <<"href", JStr(UrlX)>> >>) >>)>> >>),
     JArr(<< JObj(<< <<"data", JObj(<< <<"href", JStr(UrlY)>> >>)>> >>) >>),
     JObj(<< <<"items", JArr(<< JArr(<< JObj(<< <<"href", JStr(UrlX)>> >>) >>) >>)>> >>),
     JArr(<< JArr(<< JObj(<< <<"href", JStr(UrlY)>> >>) >>) >>)}

ParentItems == {QueueItem_new(UrlRoot, 0, None), QueueItem_new(UrlX, 1, UrlRoot)}

\* a call: the JSON passed, and the relation name when the call is
\* extract_from_link_data (None when it is extract_endpoints_from_json)
ExtractCalls ==
    {[json |-> json, rel |-> None] : json \in HalDocs \cup LinkObjects \cup Docs \cup NestedDocs}
    \cup {[json |-> json, rel |-> rel] :
            json \in LinkEntries \cup LinkObjects, rel \in {"self", "next"}}

ExtractInit ==
    /\ NeverCrawled
    /\ result = CrawlResult_new(None)
    /\ item \in ParentItems
    /\ arg \in ExtractCalls
    /\ out = None

ExtractJson ==
    /\ arg.rel = None
    /\ out' = extract_endpoints_from_json(arg.json, item)
    /\ last' = "extract"
    /\ UNCHANGED <<crawlVars, result, item, arg>>

ExtractLinkData ==
    /\ arg.rel # None
    /\ out' = extract_from_link_data(arg.rel, arg.json, item)
    /\ last' = "link_data"
    /\ UNCHANGED <<crawlVars, result, item, arg>>

ExtractNext == ExtractJson \/ ExtractLinkData

ExtractSpec == ExtractInit /\ [][ExtractNext]_vars

(***************************************************************************)
(* The tree serializer of output.rs.  A JSON object of the output is a     *)
(* record; a member the code inserts only on a condition is None (a        *)
(* string member) or the empty sequence (the "children" array) when it is  *)
(* left out; a name is kept spelled out, as the characters of the string.  *)
(***************************************************************************)
\* the characters of the modelled URLs in the order of their bytes
Alphabet ==
    <<"-", ".", "/", "0", "1", "2", "3", "4", "5", "6", "7", "8", "9", ":",
      "_", "a", "b", "c", "d", "e", "f", "g", "h", "i", "j", "k", "l", "m",
      "n", "o", "p", "q", "r", "s", "t", "u", "v", "w", "x", "y", "z">>

CharCode(c) == CHOOSE i \in 1..Len(Alphabet) : Alphabet[i] = c

\* str::cmp on spelled-out strings: -1 is Less, 0 is Equal, 1 is Greater
RECURSIVE StrCmp(_, _)
StrCmp(a, b) ==
    IF a = <<>> THEN (IF b = <<>> THEN 0 ELSE -1)
    ELSE IF b = <<>> THEN 1
    ELSE IF CharCode(Head(a)) < CharCode(Head(b)) THEN -1
    ELSE IF CharCode(Head(a)) > CharCode(Head(b)) THEN 1
    ELSE StrCmp(Tail(a), Tail(b))

\* href.split('/').last(): the characters after the last '/'
RECURSIVE LastSegment(_)
LastSegment(cs) ==
    IF cs = <<>> \/ cs[Len(cs)] = "/" THEN <<>>
    ELSE LastSegment(SubSeq(cs, 1, Len(cs) - 1)) \o << cs[Len(cs)] >>

\* the loop that fills unique_endpoints, a map from href to endpoint
RECURSIVE unique_endpoints(_, _)
unique_endpoints(unique, endpoints) ==
    IF endpoints = <<>> THEN unique
    ELSE LET endpoint == Head(endpoints) IN
         unique_endpoints(
            IF endpoint.href \in DOMAIN unique
            THEN IF \/ Cardinality(DOMAIN endpoint.metadata)
                          > Cardinality(DOMAIN unique[endpoint.href].metadata)
                    \/ /\ endpoint.rel # "self"
                       /\ unique[endpoint.href].rel = "self"
                 THEN MapInsert(unique, endpoint.href, endpoint)
                 ELSE unique
            ELSE MapInsert(unique, endpoint.href, endpoint),
            Tail(endpoints))

\* unique_endpoints.values().collect(): the records of the map in the
\* iteration order of the HashMap, given as a sequence of its keys
Values(unique, order) == [i \in 1..Len(order) |-> unique[order[i]]]

\* the rel written into a node: the metadata's "rel" string, else the
\* endpoint's rel, else the default
NodeRel(endpoint, default) ==
    IF "rel" \in DOMAIN endpoint.metadata /\ endpoint.metadata["rel"][1] = "str"
    THEN endpoint.metadata["rel"][2]
    ELSE IF endpoint.rel # None THEN endpoint.rel ELSE default

\* the "api" object of a node
EndpointInfo(endpoint, default) ==
    [name |-> LastSegment(Chars(endpoint.href)),
     url |-> endpoint.href,
     rel |-> NodeRel(endpoint, default),
     depth |-> endpoint.depth,
     method |-> endpoint.method,
     type |-> endpoint.type,
     title |-> endpoint.title]

\* the filter that finds the children of an endpoint
ChildrenFilter(endpoint, all_endpoints, processed) ==
    SelectSeq(all_endpoints,
              LAMBDA e : /\ e.parent_url = endpoint.href
                         /\ e.href \notin processed
                         /\ e.href # endpoint.href)

\* the comparator of children.sort_by: depth, then last path segment
CompareChildren_DepthOnly(a, b) ==
    IF a.depth < b.depth THEN -1 ELSE IF a.depth > b.depth THEN 1 ELSE 0

CompareChildren(a, b) ==
    IF a.depth < b.depth THEN -1
    ELSE IF a.depth > b.depth THEN 1
    ELSE StrCmp(LastSegment(Chars(a.href)), LastSegment(Chars(b.href)))

\* Vec::sort_by is a stable sort: equal elements keep their order
RECURSIVE SortedInsert(_, _)
SortedInsert(sorted, e) ==
    IF sorted = <<>> THEN << e >>
    ELSE IF CompareChildren(e, Head(sorted)) < 0 THEN << e >> \o sorted
    ELSE << Head(sorted) >> \o SortedInsert(Tail(sorted), e)

RECURSIVE sort_by(_)
sort_by(children) ==
    IF children = <<>> THEN <<>>
    ELSE SortedInsert(sort_by(SubSeq(children, 1, Len(children) - 1)),
                      children[Len(children)])

\* build_tree_node and the loop over the sorted children; both return the
\* value built and the processed set as the call leaves it
RECURSIVE build_tree_node(_, _, _)
RECURSIVE ChildNodes(_, _, _)

ChildNodes(children, all_endpoints, processed) ==
    IF children = <<>> THEN [nodes |-> <<>>, processed |-> processed]
    ELSE LET child == Head(children) IN
         IF child.href \in processed
         THEN ChildNodes(Tail(children), all_endpoints, processed)
         ELSE LET built == build_tree_node(child, all_endpoints,
                                           processed \cup {child.href})
                  rest == ChildNodes(Tail(children), all_endpoints,
                                     built.processed)
              IN  [nodes |-> << built.node >> \o rest.nodes,
                   processed |-> rest.processed]

build_tree_node(endpoint, all_endpoints, processed) ==
    LET children == sort_by(ChildrenFilter(endpoint, all_endpoints, processed))
        built == ChildNodes(children, all_endpoints, processed)
    IN  [node |-> [api |-> EndpointInfo(endpoint, "unknown"),
                   children |-> built.nodes],
         processed |-> built.processed]

\* the choice of the root endpoint, as a sequence of at most one element;
\* Iterator::find yields the first element with the property
root_endpoint(endpoints, start_url) ==
    LET own == SelectSeq(endpoints, LAMBDA e : /\ e.href = start_url
                                               /\ e.parent_url = start_url
                                               /\ e.rel = "self")
        at_start == SelectSeq(endpoints, LAMBDA e : e.href = start_url)
        at_zero == SelectSeq(endpoints, LAMBDA e : e.depth = 0)
    IN  IF own # <<>> THEN << Head(own) >>
        ELSE IF at_start # <<>> THEN << Head(at_start) >>
        ELSE IF at_zero # <<>> THEN << Head(at_zero) >>
        ELSE IF endpoints # <<>> THEN << Head(endpoints) >>
        ELSE <<>>

api_tree_RootUnmarked(endpoints, start_url) ==
    LET root == root_endpoint(endpoints, start_url) IN
    IF root = <<>> THEN <<>>
    ELSE LET children == sort_by(ChildrenFilter(root[1], endpoints, {}))
             built == ChildNodes(children, endpoints, {})
         IN  << [api |-> EndpointInfo(root[1], "self"),
                 children |-> built.nodes] >>

api_tree_LoopUnaware(endpoints, start_url) ==
    LET root == root_endpoint(endpoints, start_url) IN
    IF root = <<>> THEN <<>>
    ELSE LET children == sort_by(ChildrenFilter(root[1], endpoints, {root[1].href}))
             built == ChildNodes(children, endpoints, {})
         IN  << [api |-> EndpointInfo(root[1], "self"),
                 children |-> built.nodes] >>

\* the api_tree value: Value::Null is the empty sequence, the root object
\* a sequence of one node
api_tree(endpoints, start_url) ==
    LET root == root_endpoint(endpoints, start_url) IN
    IF root = <<>> THEN <<>>
    ELSE LET children == sort_by(ChildrenFilter(root[1], endpoints, {root[1].href}))
             built == ChildNodes(children, endpoints, {root[1].href})
         IN  << [api |-> EndpointInfo(root[1], "self"),
                 children |-> built.nodes] >>

RECURSIVE MaxDepthOf(_)
MaxDepthOf(endpoints) ==
    IF endpoints = <<>> THEN 0
    ELSE Max(Head(endpoints).depth, MaxDepthOf(Tail(endpoints)))

\* serialize_tree_result: the output document, for the iteration order the
\* HashMap of the deduplicated endpoints happens to have
serialize_tree_result(res, order) ==
    IF res.endpoints = <<>>
    THEN [start_url |-> res.start_url,
          api_tree |-> <<>>,
          summary |-> [total_endpoints |-> 0, max_depth |-> 0]]
    ELSE LET unique == unique_endpoints(EmptyMap, res.endpoints)
             endpoints == Values(unique, order)
         IN  [start_url |-> res.start_url,
              api_tree |-> api_tree(endpoints, res.start_url),
              summary |-> [total_endpoints |-> Cardinality(DOMAIN unique),
                           max_depth |-> MaxDepthOf(endpoints)]]

(***************************************************************************)
(* serialize_tree_result called on its own, on results built with          *)
(* add_endpoint.                                                           *)
(***************************************************************************)
TreeEndpoint(href, depth, parent_url, rel, metadata) ==
    [ApiEndpoint_new(href, depth) EXCEPT !.parent_url = parent_url, !.rel = rel,
                                         !.metadata = metadata]

MetaCount == MapInsert(EmptyMap, "count", JNum(1))
MetaRel == MapInsert(EmptyMap, "rel", JStr("item"))

\* records as a crawl of UrlRoot or a caller of the library may add them:
\* the start URL with and without its self link, the same href found again
\* under another parent, at another depth, with other metadata, a record
\* that is its own parent, a cycle of parents, and two siblings whose hrefs
\* end in the same segment
TreeEndpoints ==
    {TreeEndpoint(UrlRoot, 0, None, None, EmptyMap),
     TreeEndpoint(UrlRoot, 0, UrlRoot, "self", MetaCount),
     TreeEndpoint(UrlRoot, 2, UrlX, "next", EmptyMap),
     TreeEndpoint(UrlX, 1, UrlRoot, "next", EmptyMap),
     TreeEndpoint(UrlX, 1, UrlRoot, "self", MetaCount),
     TreeEndpoint(UrlX, 2, UrlY, None, EmptyMap),
     TreeEndpoint(UrlX, 1, UrlX, "next", EmptyMap),
     TreeEndpoint(UrlY, 1, UrlRoot, "next", EmptyMap),
     TreeEndpoint(UrlY, 1, UrlRoot, None, MetaRel),
     TreeEndpoint(UrlY, 2, UrlX, None, EmptyMap),
     TreeEndpoint(UrlY, 2, UrlRoot, "next", EmptyMap),
     TreeEndpoint(UrlBX, 0, None, None, EmptyMap),
     TreeEndpoint(UrlBX, 1, UrlRoot, "next", EmptyMap),
     TreeEndpoint(UrlBX, 2, UrlX, "next", EmptyMap),
     TreeEndpoint(UrlBX, 2, UrlRoot, None, EmptyMap)}

\* create_clean_test_structure
CleanEndpoints ==
    << TreeEndpoint(CleanGeneration, 1, CleanStart, "generation", EmptyMap),
       TreeEndpoint(CleanAudio, 1, CleanStart, "audio", EmptyMap),
       TreeEndpoint(CleanAnalyser, 1, CleanStart, "analyser", EmptyMap),
       TreeEndpoint(CleanTextToSpeech, 2, CleanGeneration, "text-to-speech", EmptyMap),
       TreeEndpoint(CleanSpeechEnhancement, 2, CleanGeneration, "speech-enhancement",
                    EmptyMap),
       TreeEndpoint(CleanUpload, 2, CleanAudio, "upload", EmptyMap),
       TreeEndpoint(CleanProcess, 2, CleanAudio, "process", EmptyMap),
       TreeEndpoint(CleanSentiment, 2, CleanAnalyser, "sentiment", EmptyMap),
       TreeEndpoint(CleanEmotion, 2, CleanAnalyser, "emotion", EmptyMap) >>

CleanResult == RecordAll(CrawlResult_new(CleanStart), CleanEndpoints)

TreeResults ==
    {RecordAll(CrawlResult_new(UrlRoot), endpoints) :
       endpoints \in UNION {[1..n -> TreeEndpoints] : n \in 0..MaxRecords}}
    \cup {CleanResult}

\* every sequence that holds each element of a set once
RECURSIVE OrdersOf(_)
OrdersOf(S) ==
    IF S = {} THEN {<<>>}
    ELSE UNION {{<< x >> \o p : p \in OrdersOf(S \ {x})} : x \in S}

RECURSIVE Hrefs(_)
Hrefs(endpoints) ==
    IF endpoints = <<>> THEN <<>>
    ELSE LET rest == Hrefs(Tail(endpoints)) IN
         IF \E i \in 1..Len(rest) : rest[i] = Head(endpoints).href
         THEN rest ELSE << Head(endpoints).href >> \o rest

Reverse(s) == [i \in 1..Len(s) |-> s[Len(s) + 1 - i]]
Rotations(s) ==
    {SubSeq(s, k, Len(s)) \o SubSeq(s, 1, k - 1) : k \in 1..Len(s)}

\* the orders in which unique_endpoints.values() may yield the records of a
\* result: the HashMap's hasher is seeded at random, so the order is any
\* order of its keys
IterationOrders(res) ==
    LET keys == Hrefs(res.endpoints) IN
    IF Len(keys) <= MaxPermuted
    THEN OrdersOf({keys[i] : i \in 1..Len(keys)})
    ELSE Rotations(keys) \cup Rotations(Reverse(keys))

TreeInit ==
    /\ NeverCrawled
    /\ result \in TreeResults
    /\ item = NoItem
    /\ arg = None
    /\ out = None

\* one call of serialize_tree_result(&result, ..), in which the HashMap
\* has the given iteration order
SerializeTree(order) ==
    /\ out' = serialize_tree_result(result, order)
    /\ last' = "tree"
    /\ UNCHANGED <<crawlVars, result, item, arg>>

TreeNext == \E order \in IterationOrders(result) : SerializeTree(order)

TreeSpec == TreeInit /\ [][TreeNext]_vars

(***************************************************************************)
(* serialize_hierarchical_result called on its own, on results built with  *)
(* add_endpoint.                                                           *)
(***************************************************************************)
\* the key an endpoint is filed under
parent_key(endpoint, start_url) ==
    IF endpoint.parent_url # None THEN endpoint.parent_url ELSE start_url

\* the object written for an endpoint; a member left out is None, or the
\* empty map for "metadata"
endpoint_obj(endpoint) ==
    [href |-> endpoint.href, rel |-> endpoint.rel, method |-> endpoint.method,
     type |-> endpoint.type, title |-> endpoint.title, depth |-> endpoint.depth,
     metadata |-> endpoint.metadata]

\* the loop that fills hierarchical_structure, a map from parent key to the
\* array of the objects filed under it
RECURSIVE hierarchical_structure(_, _, _)
hierarchical_structure(structure, endpoints, start_url) ==
    IF endpoints = <<>> THEN structure
    ELSE LET endpoint == Head(endpoints)
             key == parent_key(endpoint, start_url)
         IN  hierarchical_structure(
                MapInsert(structure, key,
                          IF key \in DOMAIN structure
                          THEN Append(structure[key], endpoint_obj(endpoint))
                          ELSE << endpoint_obj(endpoint) >>),
                Tail(endpoints), start_url)

serialize_hierarchical_result(res) ==
    [start_url |-> res.start_url,
     endpoint_hierarchy |-> hierarchical_structure(EmptyMap, res.endpoints,
                                                   res.start_url),
     summary |-> [total_endpoints |-> Len(res.endpoints),
                  unique_parents |-> Cardinality(DOMAIN res.url_mappings)]]

\* one call of serialize_hierarchical_result(&result, ..)
SerializeHierarchical ==
    /\ out' = serialize_hierarchical_result(result)
    /\ last' = "hierarchical"
    /\ UNCHANGED <<crawlVars, result, item, arg>>

HierarchySpec == TreeInit /\ [][SerializeHierarchical]_vars

(***************************************************************************)
(* Properties of the traversal engine.                                     *)
(***************************************************************************)
Skipped == result.stats.urls_skipped
Successful == result.stats.successful_requests
Failed == result.stats.failed_requests

\* the loop is about to pop the head of the queue
AtPop == pc = "loop" /\ url_queue # <<>>

\* the item is at or beyond the configured depth limit
TooDeep(it) == config.max_depth > 0 /\ it.depth >= config.max_depth

\* the crawl has processed as many urls as max_urls allows
LimitHit == config.max_urls > 0 /\ result.stats.urls_processed >= config.max_urls

\* the popped item gets past the two limit checks
PassesLimits == AtPop /\ ~TooDeep(Head(url_queue)) /\ ~LimitHit

\* the step skips the item at the head of the queue and goes on with the loop
SkipsHead ==
    /\ result' = [result EXCEPT !.stats.urls_skipped = @ + 1]
    /\ url_queue' = Tail(url_queue)
    /\ fetched' = fetched
    /\ visited_urls' = visited_urls
    /\ pc' = "loop"

C2_DepthLimit ==
    /\ [](config.max_depth > 0 =>
            /\ \A i \in 1..Len(fetched) : fetched[i].depth < config.max_depth
            /\ \A i \in 1..Len(result.endpoints) :
                  result.endpoints[i].depth <= config.max_depth)
    /\ []((config.max_depth = 1 /\ last = "exit") =>
            /\ Len(fetched) <= 1
            /\ \A i \in 1..Len(result.endpoints) : result.endpoints[i].depth = 1
            /\ Skipped >= Cardinality({i \in 1..Len(result.endpoints) :
                             /\ result.endpoints[i].rel # "self"
                             /\ result.endpoints[i].href \notin visited_urls}))
    /\ [][(AtPop /\ config.max_depth > 0
                 /\ Head(url_queue).depth >= config.max_depth)
            => (SkipsHead /\ result'.endpoints = result.endpoints)]_vars

C2_Witness ==
    /\ config.max_depth = 1
    /\ last = "exit"
    /\ Len(result.endpoints) = 3
    /\ Len(fetched) = 1
    /\ Skipped >= 3

\* C3 as stated: once urls_processed >= max_urls the crawl ends at the next
\* loop iteration, with nothing fetched and urls_skipped unchanged.
C3_LimitCheckedFirst ==
    [][(AtPop /\ LimitHit)
         => (pc' = "idle" /\ fetched' = fetched
             /\ result'.stats.urls_skipped = result.stats.urls_skipped)]_vars

\* C3 amended: once urls_processed >= max_urls nothing is fetched any more;
\* a popped item is judged by the depth check first, so items of depth >=
\* max_depth are still counted in urls_skipped, and the first popped item that
\* passes the depth check ends the crawl with urls_skipped unchanged.
C3_LimitAfterDepthCheck ==
    [][(AtPop /\ LimitHit)
         => \/ /\ TooDeep(Head(url_queue))
               /\ SkipsHead
               /\ LimitHit'
            \/ /\ ~TooDeep(Head(url_queue))
               /\ pc' = "idle"
               /\ returned' = "Ok"
               /\ fetched' = fetched
               /\ visited_urls' = visited_urls
               /\ result'.stats = result.stats]_vars

C3_Witness ==
    /\ last = "break"
    /\ LimitHit
    /\ Skipped > 0

\* C4: with max_urls > 0 a crawl sends at most max_urls fetches.
C4_FetchesWithinMaxUrls ==
    config.max_urls > 0 => Len(fetched) <= config.max_urls

\* C5: once the seed is accepted crawl returns Ok(result): only a seed that
\* does not parse makes it return an error.
C5_OnlyBadSeedFails == returned = "Err" => last = "bad_seed"

\* C6: every crawl starts from a queue holding the seed item alone and from
\* an empty visited set.
C6_StartsFresh ==
    last = "start" =>
        /\ visited_urls = {}
        /\ Len(url_queue) = 1
        /\ url_queue[1].depth = 0
        /\ url_queue[1].parent_url = None

\* C7: a failed fetch adds one to failed_requests and one message to errors,
\* leaves endpoints, url_mappings, successful_requests and urls_processed
\* alone, and the loop goes on with the queue it had.
C7_FailureIsAbsorbed ==
    [][(pc = "fetch" /\ last' \in {"transport_err", "decode_err"})
         => /\ result'.stats.failed_requests = result.stats.failed_requests + 1
            /\ Len(result'.stats.errors) = Len(result.stats.errors) + 1
            /\ SubSeq(result'.stats.errors, 1, Len(result.stats.errors))
                 = result.stats.errors
            /\ result'.stats.errors[Len(result'.stats.errors)].url = item.url
            /\ result'.endpoints = result.endpoints
            /\ result'.url_mappings = result.url_mappings
            /\ result'.stats.successful_requests = result.stats.successful_requests
            /\ result'.stats.urls_processed = result.stats.urls_processed
            /\ url_queue' = url_queue
            /\ pc' = "loop"
            /\ returned' = "none"]_vars

C7_Witness ==
    /\ last = "decode_err"
    /\ Failed = 1
    /\ Len(result.endpoints) > 0
    /\ url_queue # <<>>

C9_EveryPopCounted ==
    (pc = "idle" /\ returned \in {"Ok", "Err"}) =>
        popped = Successful + Failed + Skipped

\* the endpoints of eps that are followed: should_crawl and href not visited
Followed(eps) ==
    LET Follow(e) == e.rel # "self" /\ e.href \notin visited_urls
    IN SelectSeq(eps, Follow)

\* the step records exactly eps and enqueues exactly the followed ones
RecordsAndEnqueues(eps) ==
    /\ result'.endpoints = result.endpoints \o eps
    /\ url_queue' = url_queue \o
          [i \in 1..Len(Followed(eps)) |->
              [url |-> Followed(eps)[i].href, depth |-> item.depth + 1,
               parent_url |-> item.url]]

\* C10: a successful fetch appends every extracted endpoint to
\* result.endpoints and enqueues (href, item.depth + 1, item.url) for exactly
\* those with should_crawl whose href is not in visited_urls.
C10_RecordAllEnqueueFollowed ==
    [][(pc = "fetch" /\ last' \in {"json", "non_json"})
         => RecordsAndEnqueues(IF last' = "json"
                               THEN extract_endpoints_from_json(response'.body, item)
                               ELSE <<>>)]_vars

C10_Witness ==
    /\ last = "json"
    /\ Len(fetched) = 1
    /\ Len(result.endpoints) = 4
    /\ \E i \in 1..4 : result.endpoints[i].rel = "self"
    /\ \E i \in 1..4 : result.endpoints[i].href \in visited_urls
    /\ Len(url_queue) = 2

(***************************************************************************)
(* Properties of the extractor and the aggregator inside a crawl.          *)
(***************************************************************************)
\* the endpoints the step appends to result.endpoints
Added == SubSeq(result'.endpoints, Len(result.endpoints) + 1, Len(result'.endpoints))

\* C11: every endpoint a fetch adds to the crawl result has depth equal to
\* the fetched item's depth plus one and parent_url equal to that item's url,
\* whichever rule produced it and however deeply its field is nested; so
\* every endpoint of the result points back at an item the crawl fetched,
\* one level above it.
C11_DepthAndParentFromItem ==
    [][/\ (pc = "fetch" /\ pc' = "loop")
          => \A i \in 1..Len(Added) : /\ Added[i].depth = item.depth + 1
                                      /\ Added[i].parent_url = item.url
       /\ \A i \in 1..Len(result'.endpoints) :
             \E j \in 1..Len(fetched') :
                /\ result'.endpoints[i].depth = fetched'[j].depth + 1
                /\ result'.endpoints[i].parent_url = fetched'[j].url]_vars

\* a depth-1 item's document has yielded depth-2 endpoints from a relation
\* entry, from the href of an object nested two levels down and from a
\* URL-like field
C11_Witness ==
    /\ last = "json"
    /\ item.depth = 1
    /\ \E i, j, k \in 1..Len(result.endpoints) :
          /\ result.endpoints[i].depth = 2
          /\ result.endpoints[i].rel = "next"
          /\ result.endpoints[j].depth = 2
          /\ result.endpoints[j].rel = None
          /\ result.endpoints[j].metadata = EmptyMap
          /\ result.endpoints[j].parent_url = item.url
          /\ result.endpoints[k].depth = 2
          /\ "source_field" \in DOMAIN result.endpoints[k].metadata

\* the endpoints of the result whose parent_url is p, in insertion order
ChildrenOf(p) == SelectSeq(result.endpoints, LAMBDA e : e.parent_url = p)

\* C12: after any sequence of add_endpoint calls, url_mappings has an entry
\* for exactly the parent urls that occur in endpoints, the entry of p is
\* the subsequence of endpoints whose parent_url is p in insertion order,
\* and an endpoint without parent_url is in no entry.
C12_MappingsAreEndpointsByParent ==
    /\ DOMAIN result.url_mappings =
          {result.endpoints[i].parent_url : i \in 1..Len(result.endpoints)} \ {None}
    /\ \A p \in DOMAIN result.url_mappings : result.url_mappings[p] = ChildrenOf(p)
    /\ \A p \in DOMAIN result.url_mappings :
          \A i \in 1..Len(result.url_mappings[p]) :
             result.url_mappings[p][i].parent_url # None

\* four calls: two parents interleaved and one endpoint without a parent
C12_Witness ==
    /\ last = "add_endpoint"
    /\ Len(result.endpoints) = 4
    /\ result.endpoints[1].parent_url = UrlRoot
    /\ result.endpoints[2].parent_url = UrlX
    /\ result.endpoints[3].parent_url = None
    /\ result.endpoints[4].parent_url = UrlRoot
    /\ result.endpoints[4] # result.endpoints[1]
    /\ Len(result.url_mappings[UrlRoot]) = 2

\* C13: should_crawl answers false exactly when the endpoint's rel is the
\* string "self"; it answers true for every other rel, however close to
\* "self", and when rel is absent.
C13_OnlySelfIsNotCrawled ==
    last = "should_crawl"
      => /\ out \in BOOLEAN
         /\ out = FALSE <=> arg.rel = "self"
         /\ arg.rel = None => out = TRUE

\* the first endpoint of test_endpoint_should_crawl has been asked
C13_Witness ==
    /\ last = "should_crawl"
    /\ arg = with_rel(ApiEndpoint_new(UrlRoot, 1), "self")
    /\ out = FALSE

(***************************************************************************)
(* Properties of the concurrency gate.                                     *)
(***************************************************************************)
\* fetches in flight: GETs sent whose process_url call has not returned
InFlight == IF pc = "fetch" THEN 1 ELSE 0

\* C14: the number of fetches in flight never exceeds
\* max_concurrent_requests; every fetch in flight holds one permit of the
\* semaphore; a fetch starts only by taking a free permit, and the permit
\* goes back in the step in which the fetch-and-extract outcome is recorded.
C14_PermitBoundsFetches ==
    [][/\ InFlight' <= config.max_concurrent_requests
       /\ semaphore' >= 0
       /\ semaphore' + InFlight' = config.max_concurrent_requests
       /\ InFlight' > InFlight => semaphore > 0 /\ semaphore' = semaphore - 1
       /\ InFlight' < InFlight
            => /\ semaphore' = semaphore + 1
               /\ result'.stats.successful_requests + result'.stats.failed_requests
                    = result.stats.successful_requests + result.stats.failed_requests + 1
       /\ InFlight' = InFlight => semaphore' = semaphore]_vars

\* a fetch is in flight on the only permit of the crawler
C14_Witness ==
    /\ pc = "fetch"
    /\ config.max_concurrent_requests = 1
    /\ semaphore = 0
    /\ fetched # <<>>

\* the item at the head of the queue would pass every check of the loop
Admissible(it) ==
    /\ ~TooDeep(it)
    /\ ~LimitHit
    /\ it.url \notin visited_urls
    /\ is_domain_allowed(it.url) = "true"

\* C15: the engine dispatches eagerly up to the concurrency ceiling: while
\* one fetch is in flight, a permit is free and an admissible item waits at
\* the head of the queue, the engine can dequeue and dispatch that item, so
\* that two fetches are in flight.
C15_EagerDispatch ==
    (/\ pc = "fetch"
     /\ config.max_concurrent_requests >= 2
     /\ semaphore > 0
     /\ url_queue # <<>>
     /\ popped < MaxPops
     /\ Admissible(Head(url_queue)))
      => ENABLED Dispatch

(***************************************************************************)
(* Termination.                                                            *)
(***************************************************************************)
\* C16 as stated: over every link graph of the modelled API, cyclic ones
\* included, and for every configuration, a crawl that has started
\* eventually returns.
C16_CrawlTerminates == (pc # "idle") ~> (pc = "idle" /\ returned \in {"Ok", "Err"})

\* C16, amended: on a crawler with max_concurrent_requests >= 1, over every
\* link graph of the modelled API, cyclic ones included, and with any
\* max_depth and max_urls (0 included), a crawl that has started eventually
\* returns, given that every fetch returns.
C16_CrawlTerminatesWithAPermit ==
    (pc # "idle" /\ config.max_concurrent_requests >= 1)
      ~> (pc = "idle" /\ returned \in {"Ok", "Err"})

\* an unlimited crawl of a cyclic graph has returned: the seed links to x,
\* x links back to the seed, both were fetched and the rediscovered urls
\* were skipped
C16_Witness ==
    /\ pc = "idle"
    /\ returned = "Ok"
    /\ last = "exit"
    /\ config.max_depth = 0
    /\ config.max_urls = 0
    /\ Len(fetched) >= 2
    /\ result.stats.urls_skipped >= 1
    /\ \E i, j \in 1..Len(result.endpoints) :
          /\ result.endpoints[i].href = UrlX
          /\ result.endpoints[i].parent_url = UrlRoot
          /\ result.endpoints[j].href = UrlRoot
          /\ result.endpoints[j].parent_url = UrlX

(***************************************************************************)
(* Outcomes of a fetch and of a crawl call.                                *)
(***************************************************************************)
\* C17: a response whose content type names neither application/json nor
\* application/hal+json (a missing header included) is a success:
\* successful_requests and urls_processed go up by one, failed_requests
\* and errors stay, no endpoint is recorded and no item is enqueued.
C17_NonJsonIsSuccess ==
    [][(pc = "fetch" /\ response'.content_type \in {CtHtml, ""})
         => /\ result'.stats.successful_requests = result.stats.successful_requests + 1
            /\ result'.stats.urls_processed = result.stats.urls_processed + 1
            /\ result'.stats.failed_requests = result.stats.failed_requests
            /\ result'.stats.errors = result.stats.errors
            /\ result'.endpoints = result.endpoints
            /\ result'.url_mappings = result.url_mappings
            /\ url_queue' = url_queue]_vars

\* the second fetch of a crawl answered without a Content-Type header while
\* items were waiting and endpoints of the first fetch were on record
C17_Witness ==
    /\ last = "non_json"
    /\ response.content_type = ""
    /\ result.stats.successful_requests = 2
    /\ result.stats.failed_requests = 0
    /\ result.endpoints # <<>>
    /\ url_queue # <<>>

\* C18: a crawl() call whose seed does not parse as an absolute URL
\* returns an error at once: no item is enqueued, visited_urls stays as it
\* was, no permit is taken and no GET is sent.
C18_BadSeedFailsFast ==
    [][(pc = "idle" /\ crawls' = crawls + 1 /\ ~UrlParse(result'.start_url).ok)
         => /\ returned' = "Err"
            /\ pc' = "idle"
            /\ url_queue' = url_queue
            /\ visited_urls' = visited_urls
            /\ semaphore' = semaphore
            /\ fetched' = <<>>
            /\ response' = response]_vars

\* crawl("a.com") has failed on a crawler that had crawled before
C18_Witness ==
    /\ last = "bad_seed"
    /\ result.start_url = BadSeed
    /\ returned = "Err"
    /\ pc = "idle"
    /\ crawls = 2
    /\ visited_urls # {}
    /\ fetched = <<>>

(***************************************************************************)
(* Properties of the extractor called on its own.                          *)
(***************************************************************************)
\* every object nested anywhere in a JSON value, the value itself included
RECURSIVE ObjectsIn(_)
ObjectsIn(json) ==
    CASE json[1] = "obj" ->
           {json} \cup UNION {ObjectsIn(json[2][i][2]) : i \in 1..Len(json[2])}
      [] json[1] = "arr" -> UNION {ObjectsIn(json[2][i]) : i \in 1..Len(json[2])}
      [] OTHER -> {}

\* every string nested anywhere in a JSON value
RECURSIVE StringsIn(_)
StringsIn(json) ==
    CASE json[1] = "str" -> {json[2]}
      [] json[1] = "obj" -> UNION {StringsIn(json[2][i][2]) : i \in 1..Len(json[2])}
      [] json[1] = "arr" -> UNION {StringsIn(json[2][i]) : i \in 1..Len(json[2])}
      [] OTHER -> {}

\* a link object: an object with a string href member
IsLinkObject(json) == json[1] = "obj" /\ Get(json, "href")[1] = "str"

\* the members of a link object other than href, rel, method, type and
\* title, as a map from key to value
OtherMembers(obj) ==
    [key \in {obj[2][i][1] : i \in 1..Len(obj[2])}
               \ {"href", "rel", "method", "type", "title"} |-> Get(obj, key)]

\* C19: the metadata of an extracted endpoint never has one of the keys
\* href, rel, method, type, title, whatever rule produced the endpoint; an
\* endpoint made from a link object carries in metadata every other member
\* of that object with its value, and nothing else (an endpoint made from a
\* string entry has no metadata, one made from a URL-like field only
\* source_field).
C19_MetadataIsTheOtherMembers ==
    last \in {"extract", "link_data"}
      => /\ \A i \in 1..Len(out) :
              /\ DOMAIN out[i].metadata \cap {"href", "rel", "method", "type", "title"} = {}
              /\ \/ \E obj \in ObjectsIn(arg.json) :
                       /\ IsLinkObject(obj)
                       /\ out[i].href = Get(obj, "href")[2]
                       /\ out[i].metadata = OtherMembers(obj)
                 \/ /\ out[i].metadata = EmptyMap
                    /\ out[i].href \in StringsIn(arg.json)
                 \/ /\ out[i].rel = None
                    /\ DOMAIN out[i].metadata = {"source_field"}
         /\ (last = "link_data" /\ IsLinkObject(arg.json))
              => /\ Len(out) = 1
                 /\ out[1].rel = arg.rel
                 /\ out[1].metadata = OtherMembers(arg.json)
         /\ (last = "extract" /\ IsLinkObject(arg.json))
              => \E i \in 1..Len(out) :
                    /\ out[i].href = Get(arg.json, "href")[2]
                    /\ out[i].rel = GetStr(arg.json, "rel")
                    /\ out[i].metadata = OtherMembers(arg.json)

\* as in test_no_metadata_duplication: a link object with all five known
\* fields and two other members has been extracted under a relation name
C19_Witness ==
    /\ last = "link_data"
    /\ arg.rel = "next"
    /\ IsLinkObject(arg.json)
    /\ {arg.json[2][i][1] : i \in 1..Len(arg.json[2])}
         = {"count", "href", "method", "rel", "site_url", "title", "type"}
    /\ Len(out) = 1
    /\ out[1].method = "POST"
    /\ out[1].title = "t"
    /\ out[1].type = CtHal
    /\ DOMAIN out[1].metadata = {"count", "site_url"}
    /\ out[1].metadata["count"] = JNum(1)

\* the href a single link names: a string, or the href of a link object
SingleHref(entry) ==
    CASE entry[1] = "str" -> {entry[2]}
      [] IsLinkObject(entry) -> {Get(entry, "href")[2]}
      [] OTHER -> {}

\* the hrefs a link entry names: those of a single link, or of the single
\* links an array holds
EntryHrefs(entry) ==
    IF entry[1] = "arr"
    THEN UNION {SingleHref(entry[2][i]) : i \in 1..Len(entry[2])}
    ELSE SingleHref(entry)

\* extract_endpoints_from_json has run on an object with an object-valued
\* _links member
HalExtracted ==
    /\ last = "extract"
    /\ arg.json[1] = "obj"
    /\ Get(arg.json, "_links")[1] = "obj"

\* every link entry of _links yields an endpoint under its relation name
EveryEntryYields ==
    \A i \in 1..Len(Get(arg.json, "_links")[2]) :
       \A href \in EntryHrefs(Get(arg.json, "_links")[2][i][2]) :
          \E k \in 1..Len(out) :
             /\ out[k].rel = Get(arg.json, "_links")[2][i][1]
             /\ out[k].href = href
             /\ out[k].depth = item.depth + 1

\* _links has a self entry that is a single link
OneSelfEntry == SingleHref(Get(Get(arg.json, "_links"), "self")) # {}

SelfEndpoints == {k \in 1..Len(out) : out[k].rel = "self"}

ExactlyOneSelf ==
    /\ Cardinality(SelfEndpoints) = 1
    /\ \A k \in SelfEndpoints : ~should_crawl(out[k])

\* the link containers of the document that have a member named self
SelfContainers ==
    {<<obj, key>> \in ObjectsIn(arg.json) \X {"_links", "links"} :
       Get(obj, key)[1] = "obj" /\ Get(Get(obj, key), "self") # JMissing}

\* the self entry of _links is the only place where the document names the
\* relation self
SelfNamedOnce ==
    /\ SelfContainers = {<<arg.json, "_links">>}
    /\ \A obj \in ObjectsIn(arg.json) : GetStr(obj, "rel") # "self"

\* C20 as stated: every link entry of an object-valued _links that is a
\* string, a link object or an array of those yields an endpoint with the
\* entry's relation name, its href and depth parent depth + 1; and when
\* _links has one self entry, exactly one extracted endpoint has rel "self"
\* and should_crawl is false for it.
C20_HalLinksOneSelf ==
    HalExtracted => /\ EveryEntryYields
                    /\ OneSelfEntry => ExactlyOneSelf

\* C20, amended: every link entry of an object-valued _links that is a
\* string, a link object or an array of those yields an endpoint with the
\* entry's relation name, its href and depth parent depth + 1; when _links
\* has one self entry and the document names the relation self nowhere
\* else (in no other link container, in no rel member of an object),
\* exactly one extracted endpoint has rel "self"; and should_crawl is false
\* for every extracted endpoint with rel "self".
C20_HalLinksOneSelfNamedOnce ==
    HalExtracted => /\ EveryEntryYields
                    /\ (OneSelfEntry /\ SelfNamedOnce) => ExactlyOneSelf
                    /\ \A k \in SelfEndpoints : ~should_crawl(out[k])

\* the document of test_extract_endpoints_from_hal_json has been extracted:
\* self, next and an items array, at least four endpoints, one of them self
C20_Witness ==
    /\ HalExtracted
    /\ Get(arg.json, "_links") =
         JObj(<< <<"items", JArr(<< JObj(<< <<"href", JStr(UrlX)>> >>), JStr(UrlY) >>)>>,
                 <<"next", JObj(<< <<"href", JStr(UrlX)>> >>)>>,
                 <<"self", JObj(<< <<"href", JStr(UrlX)>> >>)>> >>)
    /\ Len(out) >= 4
    /\ Cardinality(SelfEndpoints) = 1
    /\ \E k \in 1..Len(out) : out[k].rel = "items" /\ out[k].href = UrlY

\* C21: extract_endpoints_from_json yields, for every object of the
\* document that has a string href member, at least one endpoint with that
\* href, wherever the object sits: also when it is an element of an array
\* nested directly inside another array.
C21_EveryLinkObjectYields ==
    (last = "extract") =>
        \A o \in ObjectsIn(arg.json) :
            IsLinkObject(o) =>
                \E i \in 1..Len(out) : out[i].href = GetStr(o, "href")

(***************************************************************************)
(* Properties of the tree serializer.                                      *)
(***************************************************************************)
\* the records the serializer keeps of the result, by href
Kept == unique_endpoints(EmptyMap, result.endpoints)

\* the records of the result with a given href
RecordsAt(href) ==
    {result.endpoints[i] : i \in {j \in 1..Len(result.endpoints) :
                                    result.endpoints[j].href = href}}

MetadataSize(endpoint) == Cardinality(DOMAIN endpoint.metadata)

\* a node and every node below it, parents before children
RECURSIVE NodesUnder(_)
NodesUnder(node) ==
    << node >> \o Flatten([i \in 1..Len(node.children) |-> NodesUnder(node.children[i])])

\* every node of the tree last written
TreeNodes == Flatten([i \in 1..Len(out.api_tree) |-> NodesUnder(out.api_tree[i])])

\* C22: of the records of the result that share an href, the tree
\* serializer keeps one whose metadata map is largest; a record with rel
\* "self" and more metadata is never displaced by a record with another
\* rel and less metadata.
C22_DedupKeepsLargestMetadata ==
    (last = "tree") =>
        \A href \in DOMAIN Kept :
            \A endpoint \in RecordsAt(href) :
                MetadataSize(Kept[href]) >= MetadataSize(endpoint)

\* C23: every record the serializer keeps appears in the tree as a node;
\* a record that is not placed under the root is written as a further
\* top-level node.
C23_EveryRecordIsInTheTree ==
    (last = "tree") =>
        \A href \in DOMAIN Kept :
            \E i \in 1..Len(TreeNodes) : TreeNodes[i].api.url = href

\* the smallest depth among the kept records
MinDepth == CHOOSE d \in {Kept[h].depth : h \in DOMAIN Kept} :
                \A h \in DOMAIN Kept : d <= Kept[h].depth

\* C24: the root of the tree is the kept record whose href is the start
\* URL when there is one, and otherwise a kept record of minimal depth; the
\* tree is empty only when the result has no records.
C24_RootIsStartOrShallowest ==
    (last = "tree") =>
        /\ (out.api_tree = <<>>) <=> (result.endpoints = <<>>)
        /\ out.api_tree # <<>> =>
              IF result.start_url \in DOMAIN Kept
              THEN out.api_tree[1].api.url = result.start_url
              ELSE out.api_tree[1].api.depth = MinDepth

\* the hrefs of the children of a node, as a set
ChildUrls(node) == {node.children[i].api.url : i \in 1..Len(node.children)}

\* the hrefs of the records of the result whose parent_url is url
RecordsUnder(url) ==
    {result.endpoints[i].href : i \in {j \in 1..Len(result.endpoints) :
                                         result.endpoints[j].parent_url = url}}

\* the nodes of the tree that carry a children array
WithChildren == {i \in 1..Len(TreeNodes) : TreeNodes[i].children # <<>>}

\* C25: for the result of create_clean_test_structure the tree has a root
\* node for the start URL; its children are exactly the three endpoints
\* whose parent_url is the start URL, each of them has exactly its own two
\* direct children, and there are four children arrays in all.
C25_CleanStructureTree ==
    (last = "tree" /\ result = CleanResult) =>
        /\ Len(out.api_tree) = 1
        /\ out.api_tree[1].api.url = CleanStart
        /\ ChildUrls(out.api_tree[1]) = RecordsUnder(CleanStart)
        /\ \A i \in 1..Len(out.api_tree[1].children) :
              LET child == out.api_tree[1].children[i] IN
              /\ ChildUrls(child) = RecordsUnder(child.api.url)
              /\ Len(child.children) = 2
        /\ Cardinality(WithChildren) = 4

\* C26: for every child node of the tree, the record of the child names
\* the href of the parent node as its parent_url and its depth is the depth
\* of the parent node plus one; a record whose parent_url matches but whose
\* depth differs is not attached.
C26_ChildIsOneDeeperThanParent ==
    (last = "tree") =>
        \A i \in 1..Len(TreeNodes) :
            \A j \in 1..Len(TreeNodes[i].children) :
                LET child == TreeNodes[i].children[j] IN
                /\ Kept[child.api.url].parent_url = TreeNodes[i].api.url
                /\ child.api.depth = TreeNodes[i].api.depth + 1

\* C27: no href is the url of more than one node of the tree, whatever the
\* records are: with several records per href, with a record that is its
\* own parent, with records that are each other's parent.
C27_NoHrefTwice ==
    (last = "tree") =>
        \A i, j \in 1..Len(TreeNodes) :
            TreeNodes[i].api.url = TreeNodes[j].api.url => i = j

\* a tree of two nodes written for a result that holds a second record for
\* an href and a root and child that name each other as parent
C27_Witness ==
    /\ last = "tree"
    /\ Len(result.endpoints) > Cardinality(DOMAIN Kept)
    /\ DOMAIN Kept = {UrlRoot, UrlX}
    /\ Kept[UrlRoot].parent_url = UrlX
    /\ Kept[UrlX].parent_url = UrlRoot
    /\ Len(TreeNodes) = 2

\* C28: the tree does not depend on the order in which the map of the kept
\* records is iterated: every iteration order gives the root, the nodes and
\* the order of children of the tree last written.
C28_TreeIsDeterministic ==
    (last = "tree") =>
        \A order \in IterationOrders(result) :
            serialize_tree_result(result, order).api_tree = out.api_tree

\* the number of nodes on the longest path from a node down to a leaf
RECURSIVE Height(_)
Height(node) ==
    IF node.children = <<>> THEN 1
    ELSE 1 + (CHOOSE h \in {Height(node.children[i]) : i \in 1..Len(node.children)} :
                \A i \in 1..Len(node.children) : h >= Height(node.children[i]))

TreeHeight == IF out.api_tree = <<>> THEN 0 ELSE Height(out.api_tree[1])

\* C29: the construction of the tree ends for every result, also when the
\* parents of its records form a cycle or a record is its own parent: each
\* call of build_tree_node contributes one node, and the tree has no more
\* nodes, and no more levels of nesting, than the result has distinct hrefs.
C29_TreeIsBoundedByHrefs ==
    (last = "tree") =>
        /\ Len(TreeNodes) <= Cardinality(DOMAIN Kept)
        /\ TreeHeight <= Cardinality(DOMAIN Kept)

\* a tree as deep as the result has hrefs, written for records of which the
\* root and its child name each other as parent
C29_Witness ==
    /\ last = "tree"
    /\ DOMAIN Kept = {UrlRoot, UrlX, UrlY}
    /\ Kept[UrlRoot].parent_url = UrlX
    /\ Kept[UrlX].parent_url = UrlRoot
    /\ Kept[UrlY].parent_url = UrlX
    /\ TreeHeight = 3

\* C30: under every node the children stand by ascending depth, and
\* children of equal depth by the last path segment of their href in
\* lexicographic order.
C30_ChildrenAreSorted ==
    (last = "tree") =>
        \A n \in 1..Len(TreeNodes) :
            \A i, j \in 1..Len(TreeNodes[n].children) :
                i < j =>
                    LET a == TreeNodes[n].children[i].api
                        b == TreeNodes[n].children[j].api
                    IN  \/ a.depth < b.depth
                        \/ a.depth = b.depth /\ StrCmp(a.name, b.name) <= 0

\* a root written with a child at depth 1 named "y" before a child at depth
\* 2 named "x"
C30_Witness ==
    /\ last = "tree"
    /\ out.api_tree # <<>>
    /\ Len(out.api_tree[1].children) = 2
    /\ out.api_tree[1].children[1].api.url = UrlY
    /\ out.api_tree[1].children[1].api.depth = 1
    /\ out.api_tree[1].children[2].api.url = UrlBX
    /\ out.api_tree[1].children[2].api.depth = 2

(***************************************************************************)
(* Properties of the hierarchical serializer.                              *)
(***************************************************************************)
\* the parent_url values that occur in the endpoints of the result
ParentUrls ==
    {result.endpoints[i].parent_url : i \in 1..Len(result.endpoints)} \ {None}

\* the number of child records listed in the view last written
RECURSIVE ListedIn(_, _)
ListedIn(hierarchy, keys) ==
    IF keys = {} THEN 0
    ELSE LET k == CHOOSE x \in keys : TRUE
         IN  Len(hierarchy[k]) + ListedIn(hierarchy, keys \ {k})

\* C31: for a result built with add_endpoint, under every key that occurs
\* as the parent_url of an endpoint the hierarchical view lists as many
\* child records as url_mappings holds for that key, also when endpoints
\* without parent_url are filed under the start URL.
C31_HierarchyCountsAreMappingCounts ==
    (last = "hierarchical") =>
        \A parent \in ParentUrls :
            /\ parent \in DOMAIN out.endpoint_hierarchy
            /\ parent \in DOMAIN result.url_mappings
            /\ Len(out.endpoint_hierarchy[parent]) = Len(result.url_mappings[parent])

\* C32: in the hierarchical view summary.unique_parents is the number of
\* keys of the mapping written, an endpoint without parent_url being filed
\* under the start URL, and summary.total_endpoints is the number of child
\* records listed in all.
C32_SummaryCountsTheView ==
    (last = "hierarchical") =>
        /\ out.summary.unique_parents = Cardinality(DOMAIN out.endpoint_hierarchy)
        /\ out.summary.total_endpoints
             = ListedIn(out.endpoint_hierarchy, DOMAIN out.endpoint_hierarchy)

(***************************************************************************)
(* Further properties of a crawl.                                          *)
(***************************************************************************)
\* how often a string occurs as a value in a JSON value
RECURSIVE Occurrences(_, _)
RECURSIVE OccurrencesIn(_, _, _)
OccurrencesIn(values, u, i) ==
    IF i > Len(values) THEN 0
    ELSE Occurrences(values[i], u) + OccurrencesIn(values, u, i + 1)

Occurrences(json, u) ==
    CASE json[1] = "str" -> IF json[2] = u THEN 1 ELSE 0
      [] json[1] = "obj" ->
           OccurrencesIn([i \in 1..Len(json[2]) |-> json[2][i][2]], u, 1)
      [] json[1] = "arr" -> OccurrencesIn(json[2], u, 1)
      [] OTHER -> 0

\* the URLs a document names only as the self entry of its _links object
OnlySelfUrls(json) ==
    IF json[1] = "obj" /\ Get(json, "_links")[1] = "obj"
    THEN {u \in EntryHrefs(Get(Get(json, "_links"), "self")) : Occurrences(json, u) = 1}
    ELSE {}

\* the frontier items the step appends to url_queue
Enqueued ==
    {url_queue'[i] : i \in (Len(url_queue) + 1)..Len(url_queue')}

\* C33: a URL that a response names only as the self entry of its _links
\* object is not enqueued by the processing of that response.
C33_SelfLinkNotEnqueued ==
    [][(pc = "fetch" /\ last' = "json")
         => \A u \in OnlySelfUrls(response'.body) :
                \A it \in Enqueued : it.url # u]_vars

\* the first crawl() of a crawler: nothing is left over from an earlier one
FreshCrawl == crawls = 1

\* the step pops an item after an earlier pop of the same crawl
PopsAgain == popped >= 1 /\ popped' = popped + 1

\* the frontier holds items of at most two consecutive depths
TwoDepthsAtMost ==
    \A i, j \in 1..Len(url_queue) :
        url_queue[i].depth <= url_queue[j].depth + 1

\* no URL was fetched deeper than it was discovered as a link to follow:
\* every item enqueued after the seed is the (href, depth) of such an endpoint
FetchedAtSmallestDepth ==
    \A i \in 1..Len(fetched) :
        \A k \in 1..Len(result.endpoints) :
            (should_crawl(result.endpoints[k])
               /\ result.endpoints[k].href = fetched[i].url)
            => fetched[i].depth <= result.endpoints[k].depth

\* C34: in the first crawl of a crawler the items are popped in
\* non-decreasing depth, the frontier never holds items of more than two
\* consecutive depths, and every fetched URL is fetched at the smallest depth
\* at which it was enqueued.
C34_BreadthFirst ==
    [][FreshCrawl' =>
         /\ PopsAgain => item'.depth >= item.depth
         /\ TwoDepthsAtMost'
         /\ FetchedAtSmallestDepth']_vars

\* after two or more fetches of a first crawl the frontier holds an item of
\* depth 1 with an item of depth 2 behind it, and a fetched URL has been
\* found again as a link at a greater depth
C34_Witness ==
    /\ FreshCrawl
    /\ Len(fetched) >= 2
    /\ pc = "loop"
    /\ \E i, j \in 1..Len(url_queue) :
          i < j /\ url_queue[i].depth = 1 /\ url_queue[j].depth = 2
    /\ \E i \in 1..Len(fetched) : \E k \in 1..Len(result.endpoints) :
          /\ result.endpoints[k].href = fetched[i].url
          /\ should_crawl(result.endpoints[k])
          /\ result.endpoints[k].depth > fetched[i].depth

\* the statistics agree with each other
StatsConsistent ==
    /\ result.stats.urls_processed = result.stats.successful_requests
    /\ result.stats.failed_requests = Len(result.stats.errors)

\* no counter of the statistics goes down in the step
StatsGrow ==
    /\ result'.stats.urls_processed >= result.stats.urls_processed
    /\ result'.stats.successful_requests >= result.stats.successful_requests
    /\ result'.stats.failed_requests >= result.stats.failed_requests
    /\ result'.stats.urls_skipped >= result.stats.urls_skipped
    /\ result'.stats.max_depth_reached >= result.stats.max_depth_reached
    /\ Len(result'.stats.errors) >= Len(result.stats.errors)

\* C35: in every state of a crawl urls_processed equals successful_requests
\* and failed_requests equals the length of stats.errors, and no step of a
\* crawl lowers a counter of its result.
C35_StatsConsistentAndGrowing ==
    [][/\ StatsConsistent'
       /\ crawls' = crawls => StatsGrow]_vars

\* a crawl that has counted a success, a failure and a skipped item
C35_Witness ==
    /\ crawls >= 1
    /\ result.stats.successful_requests >= 1
    /\ result.stats.failed_requests >= 1
    /\ result.stats.urls_skipped >= 1
    /\ StatsConsistent

\* the URLs for which this crawl has dispatched a fetch: those whose fetch
\* has started and the one whose fetch waits for its permit
DispatchedUrls ==
    {fetched[i].url : i \in 1..Len(fetched)}
    \cup (IF pc = "acquire" THEN {item.url} ELSE {})

\* no fetch is dispatched and unfinished
NoFetchInFlight == pc \in {"loop", "idle"}

\* C36: in the first crawl of a crawler the visited set only grows and is
\* at every moment the set of URLs for which a fetch has been dispatched; when
\* no fetch is in flight its size is successful_requests + failed_requests;
\* an item skipped by the depth, duplicate or domain check does not enter it.
C36_VisitedIsDispatched ==
    [][FreshCrawl' =>
         /\ visited_urls \subseteq visited_urls'
         /\ visited_urls' = DispatchedUrls'
         /\ NoFetchInFlight' =>
               Cardinality(visited_urls') =
                  result'.stats.successful_requests + result'.stats.failed_requests
         /\ last' \in {"skip_depth", "skip_visited", "skip_domain"} =>
               visited_urls' = visited_urls]_vars

\* a first crawl with no fetch in flight, two URLs visited, one fetch
\* succeeded and one failed, and an item skipped
C36_Witness ==
    /\ FreshCrawl
    /\ NoFetchInFlight
    /\ Cardinality(visited_urls) = 2
    /\ result.stats.successful_requests = 1
    /\ result.stats.failed_requests = 1
    /\ result.stats.urls_skipped >= 1

\* the depths of the items of this crawl whose fetch has succeeded: the
\* fetches started, without the one in flight and without those for which an
\* error is recorded
SucceededDepths ==
    {fetched[i].depth :
       i \in {j \in 1..Len(fetched) :
                /\ ~(pc = "fetch" /\ j = Len(fetched))
                /\ \A k \in 1..Len(result.stats.errors) :
                      result.stats.errors[k].url # fetched[j].url}}

LargestOf(S) == IF S = {} THEN 0 ELSE CHOOSE d \in S : \A e \in S : e <= d

\* C37: max_depth_reached is the largest depth of an item whose fetch has
\* succeeded, 0 when there is none; when max_depth > 0 it is less than
\* max_depth and every recorded endpoint has a depth from 1 to max_depth.
C37_MaxDepthReached ==
    /\ result.stats.max_depth_reached = LargestOf(SucceededDepths)
    /\ config.max_depth > 0 =>
          /\ result.stats.max_depth_reached < config.max_depth
          /\ \A k \in 1..Len(result.endpoints) :
                /\ result.endpoints[k].depth >= 1
                /\ result.endpoints[k].depth <= config.max_depth

\* with max_depth = 2 an item of depth 1 has been fetched with success and
\* endpoints of depth 2 are recorded, after a fetch that failed
C37_Witness ==
    /\ config.max_depth = 2
    /\ result.stats.max_depth_reached = 1
    /\ \E k \in 1..Len(result.endpoints) : result.endpoints[k].depth = 2
    /\ result.stats.failed_requests >= 1

(***************************************************************************)
(* A further property of the tree serializer.                              *)
(***************************************************************************)
\* the sequences that hold the records of result.endpoints in another order
\* (every order for a short sequence, the rotations of the sequence and of
\* its reverse for a longer one)
Reorderings(endpoints) ==
    IF Len(endpoints) <= MaxPermuted
    THEN {[i \in 1..Len(endpoints) |-> endpoints[p[i]]] :
            p \in OrdersOf(1..Len(endpoints))}
    ELSE Rotations(endpoints) \cup Rotations(Reverse(endpoints))

\* C38: the record the tree serializer keeps for an href depends only on the
\* records that share the href, not on their order in result.endpoints:
\* every reordering of the sequence leaves the same record for every href.
C38_SurvivorIgnoresOrder ==
    (last = "tree") =>
        \A endpoints \in Reorderings(result.endpoints) :
            unique_endpoints(EmptyMap, endpoints) = Kept

(***************************************************************************)
(* A further property of the concurrency gate.                             *)
(***************************************************************************)
\* the step ends a fetch: process_url returns, by any of its paths
FetchEnds ==
    pc = "fetch"
    /\ last' \in {"json", "non_json", "transport_err", "decode_err"}

\* C39: the permit a fetch has taken is given back on every path by which
\* the fetch and extraction end (success, non-JSON response, transport
\* error, decode error); between the iterations of the loop all
\* max_concurrent_requests permits are free; and with
\* max_concurrent_requests >= 1 every dispatched fetch gets its permit, so
\* the crawl does not block on the gate.
C39_PermitReleasedOnEveryPath ==
    /\ [][FetchEnds => semaphore' = semaphore + 1]_vars
    /\ [](NoFetchInFlight => semaphore = config.max_concurrent_requests)
    /\ (pc = "acquire" /\ config.max_concurrent_requests >= 1) ~> (pc = "fetch")

\* with one permit, the loop stands between two iterations with the permit
\* free, after fetches of which one ended as a success and one as a failure
C39_Witness ==
    /\ config.max_concurrent_requests = 1
    /\ pc = "loop"
    /\ semaphore = 1
    /\ Len(fetched) >= 2
    /\ result.stats.successful_requests >= 1
    /\ result.stats.failed_requests >= 1

====
